---- MODULE Spec2Model ----
(***************************************************************************)
(* Model of the policy schema builder (c7n/schema.py: generate,            *)
(* process_resource), of the validator and its error specializer           *)
(* (c7n/schema.py: validate, specific_error), of the validate, run and     *)
(* schema commands (c7n/commands.py) and of the command line (c7n/cli.py). *)
(***************************************************************************)
EXTENDS Integers, Sequences, FiniteSets, TLC

VARIABLES
    resources,          \* c7n.manager.resources: the resource registry, in its enumeration order
    built,              \* the latest generate() call: its argument and the document it returned
    nameInput,          \* a candidate policy name, as a sequence of characters
    nameMatch,          \* the outcome of matching nameInput against the name pattern
    data,               \* schema.validate: the document being validated
    schema_arg,         \* schema.validate: "None" when no schema is passed, else "given"
    result,             \* schema.validate: what the call produced
    configs,            \* commands.validate: options.configs, a list of files
    config,             \* commands.validate: options.config (the legacy -c option), 0 for None
    pc,                 \* commands.validate: position of the command
    fileIdx,            \* commands.validate: number of files processed so far
    cmdData,            \* commands.validate: the local `data`
    used_policy_names,  \* commands.validate: the local `used_policy_names`
    exit_patched,       \* TRUE when sys.exit is replaced by a function that records
                        \* the status and returns (as the tests do), FALSE when it
                        \* raises SystemExit
    exit_calls,         \* the sys.exit calls made so far, in order
    raised,             \* the exception that ended the command, "" when none
    reports,            \* what the command did with the file it processed last
    opened,             \* the number of config files opened so far
    argv,               \* cli.main: the subcommand and the flags of the command line
    options,            \* cli.main: the Namespace parse_args returned
    run_policies,       \* commands.run: what each selected policy does when called
    invoked,            \* commands.run: the policies called so far, in order
    exit_code,          \* commands.run: the local `exit_code`
    output              \* commands.schema: what the command printed

genVars == <<resources, built>>
patVars == <<nameInput, nameMatch>>
valVars == <<data, schema_arg, result>>
cmdVars == <<configs, config, pc, fileIdx, cmdData, used_policy_names,
             exit_patched, exit_calls, raised, reports, opened>>
cliVars == <<argv, options, run_policies, invoked, exit_code, output>>
vars == <<resources, built, nameInput, nameMatch, data, schema_arg, result, configs, config,
          pc, fileIdx, cmdData, used_policy_names, exit_patched, exit_calls, raised,
          reports, opened, argv, options, run_policies, invoked, exit_code, output>>

(***************************************************************************)
(* Bounds of the model.                                                    *)
(***************************************************************************)
MaxEntries == 2     \* registrations (types, actions, filters) in a registry
MaxNameLen == 4     \* characters of a candidate policy name
MaxPolicies == 2    \* policies of a document
MaxItems == 1       \* items of `actions` and `filters` in a document
MaxFiles == 3       \* config files of one validate run
MaxRepeats == 3     \* policies of a document whose policies differ in name only
MaxRunPolicies == 3 \* policies selected for one run

(***************************************************************************)
(* Strings.  Names are TLA+ strings; where the code looks inside a string  *)
(* (endswith, sorted, the name pattern) the string is taken as its         *)
(* sequence of characters.                                                 *)
(***************************************************************************)
Chars(s) ==
    CASE s = "" -> <<>>
      [] s = "s3" -> <<"s", "3">>
      [] s = "ec2" -> <<"e", "c", "2">>
      [] s = "tag" -> <<"t", "a", "g">>
      [] s = "untag" -> <<"u", "n", "t", "a", "g">>
      [] s = "mark" -> <<"m", "a", "r", "k">>
      [] s = "value" -> <<"v", "a", "l", "u", "e">>
      [] s = "valuekv" -> <<"v", "a", "l", "u", "e", "k", "v">>
      [] s = "event" -> <<"e", "v", "e", "n", "t">>
      [] s = "and" -> <<"a", "n", "d">>
      [] s = "or" -> <<"o", "r">>
      [] s = "age" -> <<"a", "g", "e">>
      [] s = "policy" -> <<"p", "o", "l", "i", "c", "y">>
      [] s = "actions" -> <<"a", "c", "t", "i", "o", "n", "s">>
      [] s = "filters" -> <<"f", "i", "l", "t", "e", "r", "s">>
      [] s = "resources" -> <<"r", "e", "s", "o", "u", "r", "c", "e", "s">>
      [] s = "definitions" -> <<"d", "e", "f", "i", "n", "i", "t", "i", "o", "n", "s">>
      [] s = "#" -> <<"#">>
      [] s = "bogus" -> <<"b", "o", "g", "u", "s">>
      [] s = "g" -> <<"g">>
      [] s = "/tag" -> <<"/", "t", "a", "g">>
      [] s = "foo" -> <<"f", "o", "o">>
      [] s = "bar" -> <<"b", "a", "r">>
      [] s = "9x" -> <<"9", "x">>
      [] s = "unknown" -> <<"u", "n", "k", "n", "o", "w", "n">>

\* ASCII order of the characters the names are written in.
Alphabet ==
    <<"#", "-", "/", "0", "1", "2", "3", "4", "5", "6", "7", "8", "9",
      "a", "b", "c", "d", "e", "f", "g", "h", "i", "j", "k", "l", "m",
      "n", "o", "p", "q", "r", "s", "t", "u", "v", "w", "x", "y", "z">>

Ord(c) == CHOOSE i \in DOMAIN Alphabet : Alphabet[i] = c

RECURSIVE CharsLess(_, _)
CharsLess(a, b) ==
    IF b = <<>> THEN FALSE
    ELSE IF a = <<>> THEN TRUE
    ELSE IF Head(a) # Head(b) THEN Ord(Head(a)) < Ord(Head(b))
    ELSE CharsLess(Tail(a), Tail(b))

\* str.__lt__
StrLess(s, t) == CharsLess(Chars(s), Chars(t))

\* str.endswith on character sequences
EndsWith(s, suffix) ==
    /\ Len(suffix) <= Len(s)
    /\ SubSeq(s, Len(s) - Len(suffix) + 1, Len(s)) = suffix

RECURSIVE JoinChars(_, _)
JoinChars(segs, sep) ==
    IF segs = <<>> THEN <<>>
    ELSE IF Len(segs) = 1 THEN Chars(segs[1])
    ELSE Chars(segs[1]) \o <<sep>> \o JoinChars(Tail(segs), sep)

(***************************************************************************)
(* Registries.  A registry is a dict: here the sequence of its items in    *)
(* the order the dict enumerates them, with pairwise distinct names.       *)
(* An implementation is a class; its schema fragment is the one            *)
(* utils.type_schema builds for the class's own type name.                 *)
(***************************************************************************)
TypeNames == {"s3", "ec2"}
ActionNames == {"tag", "untag", "mark"}
FilterNames == {"value", "event", "and", "or", "age"}
ActionClasses == {"Tag", "RemoveTag"}
FilterClasses == {"ValueFilter", "AgeFilter"}

ClassType(cls) ==
    CASE cls = "Tag" -> "tag"
      [] cls = "RemoveTag" -> "untag"
      [] cls = "ValueFilter" -> "value"
      [] cls = "AgeFilter" -> "age"
      [] cls = "EventFilter" -> "event"

Range(seq) == {seq[i] : i \in DOMAIN seq}

Keys(registry) == [i \in DOMAIN registry |-> registry[i].name]

KeySet(registry) == {registry[i].name : i \in DOMAIN registry}

Lookup(registry, name) ==
    registry[CHOOSE i \in DOMAIN registry : registry[i].name = name]

\* dict.__setitem__: a new key is enumerated last, an existing key keeps its place.
Put(registry, item) ==
    IF item.name \in KeySet(registry)
    THEN [i \in DOMAIN registry |->
            IF registry[i].name = item.name THEN item ELSE registry[i]]
    ELSE Append(registry, item)

EmptyType(t) == [name |-> t, action_registry |-> <<>>, filter_registry |-> <<>>]

\* One registration: of a resource type, of an action or of a filter of a type.
Registrations ==
    [kind : {"type"}, type : TypeNames, name : {""}, cls : {""}]
    \cup [kind : {"action"}, type : TypeNames, name : ActionNames, cls : ActionClasses]
    \cup [kind : {"filter"}, type : TypeNames, name : FilterNames, cls : FilterClasses]

Register(reg, r) ==
    LET base == IF r.type \in KeySet(reg) THEN reg ELSE Append(reg, EmptyType(r.type))
        old == Lookup(base, r.type)
        new ==
            CASE r.kind = "type" -> old
              [] r.kind = "action" ->
                    [old EXCEPT !.action_registry = Put(@, [name |-> r.name, cls |-> r.cls])]
              [] r.kind = "filter" ->
                    [old EXCEPT !.filter_registry = Put(@, [name |-> r.name, cls |-> r.cls])]
    IN  Put(base, new)

RECURSIVE Registries(_)
Registries(n) ==
    IF n = 0 THEN {<<>>}
    ELSE LET smaller == Registries(n - 1)
         IN  smaller \cup {Register(reg, r) : reg \in smaller, r \in Registrations}

\* The same name-to-implementation mappings, enumerated in any order.
SameMapping(d1, d2) == Range(d1) = Range(d2)

SameRegistry(r1, r2) ==
    /\ KeySet(r1) = KeySet(r2)
    /\ \A t \in KeySet(r1) :
        /\ SameMapping(Lookup(r1, t).action_registry, Lookup(r2, t).action_registry)
        /\ SameMapping(Lookup(r1, t).filter_registry, Lookup(r2, t).filter_registry)

(***************************************************************************)
(* Schema nodes.  Every node carries the same fields so that nodes of      *)
(* different kinds can be compared.                                        *)
(***************************************************************************)
Ref(path) == [kind |-> "$ref", ref |-> path, enum |-> <<>>, cls |-> "", anyOf |-> <<>>]

EnumOf(names) == [kind |-> "enum", ref |-> <<>>, enum |-> names, cls |-> "", anyOf |-> <<>>]

\* a.schema / f.schema: the fragment of an implementation
ClassSchema(cls) ==
    [kind |-> "schema", ref |-> <<>>, enum |-> <<ClassType(cls)>>, cls |-> cls,
     anyOf |-> <<>>]

ArrayOfAnyOf(alts) ==
    [kind |-> "array", ref |-> <<>>, enum |-> <<>>, cls |-> "", anyOf |-> alts]

ActionRef(type_name, action_name) ==
    Ref(<<"#", "definitions", "resources", type_name, "actions", action_name>>)

FilterRef(type_name, filter_name) ==
    Ref(<<"#", "definitions", "resources", type_name, "filters", filter_name>>)

PolicyRef(type_name) ==
    Ref(<<"#", "definitions", "resources", type_name, "policy">>)

SharedFilterRef(name) == Ref(<<"#", "definitions", "filters", name>>)

\* sorted(registry.items()): names are distinct, so the order is the order of the names
RECURSIVE Insert(_, _)
Insert(sortedItems, item) ==
    IF sortedItems = <<>> THEN <<item>>
    ELSE IF StrLess(item.name, Head(sortedItems).name) THEN <<item>> \o sortedItems
    ELSE <<Head(sortedItems)>> \o Insert(Tail(sortedItems), item)

RECURSIVE Sorted(_)
Sorted(items) ==
    IF items = <<>> THEN <<>> ELSE Insert(Sorted(SubSeq(items, 1, Len(items) - 1)),
                                          items[Len(items)])

\* The loop idiom `if a in seen: continue else: seen.add(a)`: the items whose
\* implementation did not occur earlier in the enumeration.
FirstSeen(items) ==
    SelectSeq([i \in DOMAIN items |-> [name |-> items[i].name, cls |-> items[i].cls,
                                       first |-> \A j \in 1..(i - 1) : items[j].cls # items[i].cls]],
              LAMBDA it : it.first)

(***************************************************************************)
(* process_resource                                                        *)
(***************************************************************************)
NamesOf(items) == {items[i].name : i \in DOMAIN items}

\* lines 236-243: r['actions'], one definition per implementation not seen before
ActionDefs(resource_type) ==
    LET emitted == FirstSeen(resource_type.action_registry)
    IN  [n \in NamesOf(emitted) |-> ClassSchema(Lookup(emitted, n).cls)]

\* lines 237-250: action_refs
ActionRefs(type_name, resource_type) ==
    LET emitted == FirstSeen(resource_type.action_registry)
    IN  [i \in DOMAIN emitted |-> ActionRef(type_name, emitted[i].name)]
        \o <<EnumOf(Keys(resource_type.action_registry))>>

\* lines 252-263: nested_filter_refs
NestedFilterRefs(type_name, resource_type) ==
    LET emitted == FirstSeen(Sorted(resource_type.filter_registry))
    IN  [i \in DOMAIN emitted |-> FilterRef(type_name, emitted[i].name)]
        \o <<SharedFilterRef("valuekv")>>

\* lines 273-274: the first branch of the chain, which leaves the loop body
FilterSkipped(filter_name) == filter_name \in {"or", "and"}

\* lines 267-274: the filters the second loop emits something for
EmittedFilters(resource_type) ==
    SelectSeq(FirstSeen(Sorted(resource_type.filter_registry)),
              LAMBDA it : ~FilterSkipped(it.name))

\* lines 275-292: r['filters'][filter_name]
FilterDef(filter_name, cls, nested_filter_refs) ==
    IF filter_name = "value" THEN SharedFilterRef("value")
    ELSE IF filter_name = "event" THEN SharedFilterRef("event")
    ELSE IF filter_name = "or" THEN ArrayOfAnyOf(nested_filter_refs)
    ELSE IF filter_name = "and" THEN ArrayOfAnyOf(nested_filter_refs)
    ELSE ClassSchema(cls)

\* lines 265-292: r['filters']
FilterDefs(type_name, resource_type) ==
    LET emitted == EmittedFilters(resource_type)
        nested == NestedFilterRefs(type_name, resource_type)
        names == NamesOf(emitted)
                 \cup (IF "value" \in NamesOf(emitted) THEN {"valuekv"} ELSE {})
    IN  [n \in names |->
            IF n \in NamesOf(emitted)
            THEN FilterDef(n, Lookup(emitted, n).cls, nested)
            ELSE SharedFilterRef("valuekv")]

\* the items of `filters` are given the alternatives collected for `or` and `and`
FilterRefs_Nested(type_name, resource_type) ==
    NestedFilterRefs(type_name, resource_type)
        \o <<EnumOf(Keys(resource_type.filter_registry))>>

\* lines 265-301: filter_refs
FilterRefs(type_name, resource_type) ==
    LET emitted == EmittedFilters(resource_type)
    IN  [i \in DOMAIN emitted |-> FilterRef(type_name, emitted[i].name)]
        \o <<SharedFilterRef("valuekv")>>
        \o <<EnumOf(Keys(resource_type.filter_registry))>>

\* the overlay does not pin the resource to the type: it lists every type name
ResourcePolicy_AnyType(type_name, resource_type) ==
    [allOf0 |-> Ref(<<"#", "definitions", "policy">>),
     resource |-> EnumOf(<<"s3", "ec2">>),
     filters |-> FilterRefs(type_name, resource_type),
     actions |-> ActionRefs(type_name, resource_type),
     query |-> (type_name = "ec2")]

\* lines 303-320: resource_policy, the allOf of the envelope and the overlay
ResourcePolicy(type_name, resource_type) ==
    [allOf0 |-> Ref(<<"#", "definitions", "policy">>),
     resource |-> EnumOf(<<type_name>>),
     filters |-> FilterRefs(type_name, resource_type),
     actions |-> ActionRefs(type_name, resource_type),
     query |-> (type_name = "ec2")]

\* lines 233-321: the entry process_resource leaves in resource_defs
process_resource(type_name, resource_type) ==
    [actions |-> ActionDefs(resource_type),
     filters |-> FilterDefs(type_name, resource_type),
     policy |-> ResourcePolicy(type_name, resource_type)]

(***************************************************************************)
(* generate                                                                *)
(***************************************************************************)
\* lines 144-179: definitions.policy, the envelope shared by all types
PolicyEnvelope ==
    [type |-> "object",
     required |-> <<"name", "resource">>,
     additionalProperties |-> FALSE,
     properties |-> {"name", "region", "resource", "max-resources", "comment",
                     "comments", "description", "tags", "mode", "actions",
                     "filters", "query"},
     mode |-> Ref(<<"#", "definitions", "policy-mode">>)]

\* lines 181-203: definitions.policy-mode
PolicyMode ==
    [type |-> "object",
     required |-> <<"type">>,
     properties |-> {"type", "events"}]

\* lines 133-142: the names defined under definitions.filters
SharedFilters == {"value", "event", "age", "valuekv"}

\* the filter is not applied
Selected_All(registry, resource_types) == registry

\* lines 207-209: the types the loop of generate processes, in enumeration order
Selected(registry, resource_types) ==
    SelectSeq(registry, LAMBDA rt : resource_types = {} \/ rt.name \in resource_types)

\* lines 129-230
generate(registry, resource_types) ==
    LET selected == Selected(registry, resource_types)
    IN  [definitions |->
            [resources |-> [t \in NamesOf(selected) |->
                                process_resource(t, Lookup(selected, t))],
             filters |-> SharedFilters,
             policy |-> PolicyEnvelope,
             policy_mode |-> PolicyMode],
         policies |-> [i \in DOMAIN selected |-> PolicyRef(selected[i].name)]]

\* ---------------------------------------------------------------------------
\* The policy name pattern (line 151), matched by re.search as jsonschema does:
\*     ^[A-z][A-z0-9]*(-[A-z0-9]*[A-z][A-z0-9]*)*$
\* Characters are taken by class.  The range A-z spans the letters and the six
\* characters between "Z" and "a" in ASCII; "_" stands for those six, "a" for
\* the letters, "0" for the digits, "LF" for a newline and "." for every other
\* character.
\* ---------------------------------------------------------------------------
PatternChars == {"a", "0", "-", "_", "LF", "."}

\* the letters alone
InAz_LettersOnly(c) == c = "a"

\* the class [A-z]
InAz(c) == c \in {"a", "_"}

\* the class [A-z0-9]
InAz09(c) == c \in {"a", "_", "0"}

\* The pattern as an automaton.  State 1: before the first character; 2: inside
\* [A-z0-9]* of the first segment; 3: after a hyphen, inside the group's first
\* [A-z0-9]*; 4: after the group's [A-z], inside its last [A-z0-9]*.
PatternStep(q, c) ==
    CASE q = 1 -> IF InAz(c) THEN {2} ELSE {}
      [] q = 2 -> (IF InAz09(c) THEN {2} ELSE {}) \cup (IF c = "-" THEN {3} ELSE {})
      [] q = 3 -> (IF InAz09(c) THEN {3} ELSE {}) \cup (IF InAz(c) THEN {4} ELSE {})
      [] q = 4 -> (IF InAz09(c) THEN {4} ELSE {}) \cup (IF c = "-" THEN {3} ELSE {})

\* the states in which the pattern may reach its closing $
PatternFinal == {2, 4}

RECURSIVE PatternRun(_, _)
PatternRun(qs, s) ==
    IF s = <<>> THEN qs
    ELSE PatternRun(UNION {PatternStep(q, Head(s)) : q \in qs}, Tail(s))

\* $ matches at the end of the string and just before a newline that ends it.
PatternMatches(s) ==
    \/ PatternRun({1}, s) \cap PatternFinal # {}
    \/ /\ s # <<>>
       /\ s[Len(s)] = "LF"
       /\ PatternRun({1}, SubSeq(s, 1, Len(s) - 1)) \cap PatternFinal # {}

\* The class of a character of a name.
CharClass(c) ==
    IF c \in {"LF", "_", "-", "."} THEN c
    ELSE IF c \in {"0", "1", "2", "3", "4", "5", "6", "7", "8", "9"} THEN "0"
    ELSE IF c \in {"#", "/"} THEN "."
    ELSE "a"

\* jsonschema's `pattern` on a policy name
NameMatches(name) == PatternMatches([i \in DOMAIN Chars(name) |-> CharClass(Chars(name)[i])])

(***************************************************************************)
(* Documents.  A policy document is what yaml.safe_load / json.load        *)
(* returned.  A key that is not present has the value Absent.              *)
(***************************************************************************)
Absent == "<absent>"

\* An item of `actions` or `filters`: a bare string, or a mapping with `nkeys`
\* keys, among them possibly `type` and `resource`; props_ok tells whether the
\* mapping satisfies what an implementation's fragment asks beside `type`.
StrItem(s) ==
    [kind |-> "str", str |-> s, type |-> Absent, resource |-> Absent,
     nkeys |-> 0, props_ok |-> TRUE]

MapItem(type, resource, nkeys, props_ok) ==
    [kind |-> "map", str |-> "", type |-> type, resource |-> resource,
     nkeys |-> nkeys, props_ok |-> props_ok]

\* A policy entry: a mapping, or (kind "str") a bare string.
MapPolicy(name, resource, has_actions, actions, has_filters, filters) ==
    [kind |-> "map", name |-> name, resource |-> resource,
     has_actions |-> has_actions, actions |-> actions,
     has_filters |-> has_filters, filters |-> filters]

StrPolicy == [kind |-> "str", name |-> Absent, resource |-> Absent,
              has_actions |-> FALSE, actions |-> <<>>,
              has_filters |-> FALSE, filters |-> <<>>]

\* A document: a mapping with or without `policies`, or (kind "null") the None
\* an empty file deserializes to.
MapDoc(has_policies, policies) ==
    [kind |-> "map", has_policies |-> has_policies, policies |-> policies]

NullDoc == [kind |-> "null", has_policies |-> FALSE, policies |-> <<>>]

(***************************************************************************)
(* Validation errors, as jsonschema's iter_errors yields them.  A path is  *)
(* a sequence of keys and indexes.                                         *)
(***************************************************************************)
K(s) == [s |-> s, i |-> -1]

I(i) == [s |-> "", i |-> i]

\* What specific_error and validate read of error.instance.
NoInstance == [is_dict |-> FALSE, type |-> Absent, resource |-> Absent, name |-> Absent]

ItemInstance(item) ==
    [is_dict |-> item.kind = "map", type |-> item.type, resource |-> item.resource,
     name |-> Absent]

PolicyInstance(p) ==
    [is_dict |-> p.kind = "map", type |-> Absent, resource |-> p.resource,
     name |-> p.name]

\* path: error.path (relative to the parent error's instance); abs_path:
\* error.absolute_path; schema_path: error.absolute_schema_path.
Err(validator, path, abs_path, schema_path, instance, validator_value, context) ==
    [validator |-> validator, path |-> path, abs_path |-> abs_path,
     schema_path |-> schema_path, instance |-> instance,
     validator_value |-> validator_value, context |-> context]

RECURSIVE Flatten(_)
Flatten(seqs) == IF seqs = <<>> THEN <<>> ELSE Head(seqs) \o Flatten(Tail(seqs))

(***************************************************************************)
(* $ref resolution in a generated document.                                *)
(***************************************************************************)
Unresolved == [kind |-> "unresolved", ref |-> <<>>, enum |-> <<>>, cls |-> "", anyOf |-> <<>>]

\* definitions.filters.valuekv (lines 138-141)
ValueKv == [kind |-> "valuekv", ref |-> <<>>, enum |-> <<>>, cls |-> "", anyOf |-> <<>>]

\* definitions.filters.<name> (lines 133-142)
SharedFilterSchema(name) ==
    CASE name = "value" -> ClassSchema("ValueFilter")
      [] name = "event" -> ClassSchema("EventFilter")
      [] name = "age" -> ClassSchema("AgeFilter")
      [] name = "valuekv" -> ValueKv

RECURSIVE Resolve(_, _)
Resolve(schema, node) ==
    IF node.kind # "$ref" THEN node
    ELSE LET ref == node.ref
             defs == schema.definitions.resources
         IN  IF /\ Len(ref) = 6
                /\ SubSeq(ref, 1, 3) = <<"#", "definitions", "resources">>
                /\ ref[4] \in DOMAIN defs
                /\ ref[5] \in {"actions", "filters"}
             THEN LET family == IF ref[5] = "actions" THEN defs[ref[4]].actions
                                ELSE defs[ref[4]].filters
                  IN  IF ref[6] \in DOMAIN family
                      THEN Resolve(schema, family[ref[6]])
                      ELSE Unresolved
             ELSE IF /\ Len(ref) = 4
                     /\ SubSeq(ref, 1, 3) = <<"#", "definitions", "filters">>
                     /\ ref[4] \in schema.definitions.filters
             THEN SharedFilterSchema(ref[4])
             ELSE Unresolved

(***************************************************************************)
(* Validator(schema).iter_errors(data) (line 48) on the generated schema.  *)
(* jsonschema visits the keywords of a schema object in the order the dict *)
(* enumerates them, an order the code does not fix.  Where two keywords of *)
(* one dict can both report an error, every order is an outcome: the       *)
(* operators below give the set of the error sequences that can result.    *)
(***************************************************************************)
RaiseMark == "RefResolutionError"

\* The concatenations of the sequences `parts` in every order of the parts.
AnyOrder(parts) ==
    LET given == SelectSeq(parts, LAMBDA part : part # <<>>)
        n == Len(given)
        perms == {f \in [1..n -> 1..n] : \A i, j \in 1..n : i # j => f[i] # f[j]}
    IN  IF n <= 1 THEN {Flatten(given)}
        ELSE {Flatten([i \in 1..n |-> given[f[i]]]) : f \in perms}

\* One sequence out of each set of `sets`, in every way.
RECURSIVE Choices(_)
Choices(sets) ==
    IF sets = <<>> THEN {<<>>}
    ELSE {<<h>> \o t : h \in Head(sets), t \in Choices(Tail(sets))}

\* An item against one resolved schema node.
NodeErrors(node, item, sp, abs) ==
    LET inst == ItemInstance(item)
        E(validator, rel, schema_tail) ==
            Err(validator, rel, abs \o rel, sp \o schema_tail,
                IF rel = <<>> THEN inst ELSE NoInstance, <<>>, <<>>)
    IN  CASE node.kind = "unresolved" -> {<<E(RaiseMark, <<>>, <<>>)>>}
          [] node.kind = "valuekv" ->
                IF item.kind # "map" THEN {<<E("type", <<>>, <<K("type")>>)>>}
                ELSE IF item.nkeys < 1
                THEN {<<E("minProperties", <<>>, <<K("minProperties")>>)>>}
                ELSE IF item.nkeys > 1
                THEN {<<E("maxProperties", <<>>, <<K("maxProperties")>>)>>}
                ELSE {<<>>}
          [] node.kind = "array" -> {<<E("type", <<>>, <<K("type")>>)>>}
          [] node.kind = "enum" ->
                IF item.kind = "str" /\ item.str \in Range(node.enum) THEN {<<>>}
                ELSE {<<E("enum", <<>>, <<K("enum")>>)>>}
          [] node.kind = "schema" ->
                IF item.kind # "map" THEN {<<E("type", <<>>, <<K("type")>>)>>}
                ELSE LET required ==
                            IF item.type = Absent
                            THEN <<E("required", <<>>, <<K("required")>>)>> ELSE <<>>
                         properties ==
                            IF item.type # Absent /\ item.type \notin Range(node.enum)
                            THEN <<E("enum", <<K("type")>>,
                                     <<K("properties"), K("type"), K("enum")>>)>>
                            ELSE <<>>
                         additional ==
                            IF ~item.props_ok
                            THEN <<E("additionalProperties", <<>>,
                                     <<K("additionalProperties")>>)>>
                            ELSE <<>>
                     IN  AnyOrder(<<required, properties, additional>>)

HasRaise(errors) == \E i \in DOMAIN errors : errors[i].validator = RaiseMark

\* anyOf: the alternatives are tried in order up to the first that reports no
\* error; errorsOf[i] are the errors of alternative i.
AnyOf(alts, errorsOf, rel, abs, sp, inst) ==
    LET ok == {i \in DOMAIN alts : errorsOf[i] = <<>>}
        tried == IF ok = {} THEN DOMAIN alts
                 ELSE 1..(CHOOSE i \in ok : \A j \in ok : i <= j)
        raising == {i \in tried : HasRaise(errorsOf[i])}
    IN  IF raising # {}
        THEN <<Err(RaiseMark, rel, abs, sp, NoInstance, <<>>, <<>>)>>
        ELSE IF ok # {} THEN <<>>
        ELSE <<Err("anyOf", rel, abs, sp, inst, alts,
                   Flatten([i \in DOMAIN alts |-> errorsOf[i]]))>>

\* One item of `actions` or `filters` against the alternatives of its type.
ItemErrors(schema, alts, item, rel, abs, sp) ==
    {AnyOf(alts, errorsOf, rel, abs, sp, ItemInstance(item)) :
        errorsOf \in Choices([i \in DOMAIN alts |->
                        NodeErrors(Resolve(schema, alts[i]), item, sp \o <<I(i - 1)>>, abs)])}

\* The items of one `actions` or `filters` array, in index order.
ItemsErrors(schema, alts, key, items, abs, sp) ==
    {Flatten(perItem) :
        perItem \in Choices([j \in DOMAIN items |->
                        ItemErrors(schema, alts, items[j], <<K(key), I(j - 1)>>,
                                   abs \o <<K(key), I(j - 1)>>,
                                   sp \o <<K(key), K("items"), K("anyOf")>>)])}

\* A policy entry against definitions.policy (allOf[0] of its alternative).
EnvelopeErrors(p, abs, sp) ==
    IF p.kind # "map"
    THEN {<<Err("type", <<>>, abs, sp \o <<K("type")>>, PolicyInstance(p), <<>>, <<>>)>>}
    ELSE LET missing == Err("required", <<>>, abs, sp \o <<K("required")>>,
                            PolicyInstance(p), <<>>, <<>>)
             required ==
                (IF p.name = Absent THEN <<missing>> ELSE <<>>)
                \o (IF p.resource = Absent THEN <<missing>> ELSE <<>>)
             properties ==
                IF p.name # Absent /\ ~NameMatches(p.name)
                THEN <<Err("pattern", <<K("name")>>, abs \o <<K("name")>>,
                           sp \o <<K("properties"), K("name"), K("pattern")>>,
                           NoInstance, <<>>, <<>>)>>
                ELSE <<>>
         IN  AnyOrder(<<required, properties>>)

\* A policy entry against the overlay of type T (allOf[1] of its alternative).
OverlayErrors(schema, type_name, p, abs, sp) ==
    IF p.kind # "map" THEN {<<>>}
    ELSE LET overlay == schema.definitions.resources[type_name].policy
             resource ==
                IF p.resource # Absent /\ p.resource \notin Range(overlay.resource.enum)
                THEN <<Err("enum", <<K("resource")>>, abs \o <<K("resource")>>,
                           sp \o <<K("resource"), K("enum")>>, NoInstance, <<>>, <<>>)>>
                ELSE <<>>
             filters ==
                IF p.has_filters
                THEN ItemsErrors(schema, overlay.filters, "filters", p.filters, abs, sp)
                ELSE {<<>>}
             actions ==
                IF p.has_actions
                THEN ItemsErrors(schema, overlay.actions, "actions", p.actions, abs, sp)
                ELSE {<<>>}
         IN  UNION {AnyOrder(<<resource, f, a>>) : f \in filters, a \in actions}

\* A policy entry against definitions.resources[T].policy.
PolicyAltErrors(schema, type_name, p, abs, sp) ==
    {e \o o : e \in EnvelopeErrors(p, abs, sp \o <<K("allOf"), I(0)>>),
              o \in OverlayErrors(schema, type_name, p, abs,
                                  sp \o <<K("allOf"), I(1), K("properties")>>)}

\* properties.policies.items: one entry of `policies` against the anyOf of lines 222-226
PolicyErrors(schema, p, idx) ==
    LET alts == schema.policies
        abs == <<K("policies"), I(idx - 1)>>
        sp == <<K("properties"), K("policies"), K("items"), K("anyOf")>>
    IN  {AnyOf(alts, errorsOf, abs, abs, sp, PolicyInstance(p)) :
            errorsOf \in Choices([i \in DOMAIN alts |->
                            PolicyAltErrors(schema, alts[i].ref[4], p, abs,
                                            sp \o <<I(i - 1)>>)])}

\* list(validator.iter_errors(data)) on the document schema of lines 213-228:
\* the sequences of errors the call can yield
iter_errors(schema, doc) ==
    IF doc.kind # "map"
    THEN {<<Err("type", <<>>, <<>>, <<K("type")>>, NoInstance, <<>>, <<>>)>>}
    ELSE IF ~doc.has_policies
    THEN {<<Err("required", <<>>, <<>>, <<K("required")>>,
                [NoInstance EXCEPT !.is_dict = TRUE], <<>>, <<>>)>>}
    ELSE {Flatten(perPolicy) :
            perPolicy \in Choices([i \in DOMAIN doc.policies |->
                            PolicyErrors(schema, doc.policies[i], i)])}

(***************************************************************************)
(* specific_error (lines 74-126).  The outcome is the error returned, or   *)
(* the exception the lookup raised.                                        *)
(***************************************************************************)
NoError == Err("", <<>>, <<>>, <<>>, NoInstance, <<>>, <<>>)

Returns(error) == [raised |-> "", error |-> error]

Raises(exception) == [raised |-> exception, error |-> NoError]

\* the text of a $ref
RefChars(ref) == JoinChars(ref, "/")

\* r in v['$ref'].rsplit('/', 2)
InRSplit2(r, ref) ==
    LET n == Len(ref)
    IN  IF n >= 3
        THEN \/ r = ref[n]
             \/ r = ref[n - 1]
             \/ Chars(r) = JoinChars(SubSeq(ref, 1, n - 2), "/")
        ELSE \E k \in 1..n : r = ref[k]

Last(S) == CHOOSE i \in S : \A j \in S : j <= i

First(S) == CHOOSE i \in S : \A j \in S : i <= j

\* list.index of a key in the reversed path, 0-based; -1 when the key is not in it
ReversedIndex(path, key) ==
    LET at == {k \in DOMAIN path : path[k] = K(key)}
    IN  IF at = {} THEN -1 ELSE Len(path) - Last(at)

\* specific_error is to be called on the error
Recurse(error) == [raised |-> "recurse", error |-> error]

\* lines 91-105: the resource discriminator; "none" stands for falling through
ByResource(error, r) ==
    LET alts == error.validator_value
        context == error.context
    IN  IF \E i \in DOMAIN alts : alts[i].kind # "$ref" THEN Raises("KeyError")
        ELSE LET matching == {i \in DOMAIN alts : InRSplit2(r, alts[i].ref)}
             IN  IF matching = {} THEN Raises("none")
                 ELSE LET found == Last(matching) - 1
                          hits == {k \in DOMAIN context :
                                     /\ Len(context[k].schema_path) > 4
                                     /\ context[k].schema_path[5] = I(found)}
                          short == {k \in DOMAIN context :
                                     Len(context[k].schema_path) <= 4}
                      IN  IF short # {} /\ (hits = {} \/ First(short) < First(hits))
                          THEN Raises("IndexError")
                          ELSE IF hits # {} THEN Recurse(context[First(hits)])
                          ELSE IF Len(alts) <= Len(context) THEN Recurse(context[Len(alts)])
                          ELSE Raises("IndexError")

\* lines 107-125: the type discriminator; "none" stands for falling through.
\* When the schema path of context[0] holds neither oneOf nor anyOf, idx keeps
\* the value the loop of line 109 left and vidx can be negative: the deque of
\* line 124 is then indexed from its end, and IndexError is raised when the
\* index is outside -len .. len - 1.
ByType(error, t) ==
    LET alts == error.validator_value
        context == error.context
        matching == {i \in DOMAIN alts :
                        alts[i].kind = "$ref" /\ EndsWith(RefChars(alts[i].ref), Chars(t))}
    IN  IF matching = {} THEN Raises("none")
        ELSE IF context = <<>> THEN Raises("IndexError")
        ELSE LET found == Last(matching) - 1
                 spath == context[1].schema_path
                 slen == Len(spath)
                 idx == IF ReversedIndex(spath, "oneOf") >= 0
                        THEN ReversedIndex(spath, "oneOf")
                        ELSE IF ReversedIndex(spath, "anyOf") >= 0
                        THEN ReversedIndex(spath, "anyOf")
                        ELSE Len(alts) - 1
                 vidx == slen - idx
                 \* the place of absolute_schema_path[vidx] in a path of length n, from 1
                 Place(n) == IF vidx >= 0 THEN vidx + 1 ELSE n + vidx + 1
                 short == {k \in DOMAIN context :
                            Place(Len(context[k].schema_path))
                                \notin DOMAIN context[k].schema_path}
                 hits == {k \in DOMAIN context \ short :
                            context[k].schema_path[Place(Len(context[k].schema_path))]
                                = I(found)}
             IN  IF short # {} /\ (hits = {} \/ First(short) < First(hits))
                 THEN Raises("IndexError")
                 ELSE IF hits # {} THEN Returns(context[First(hits)])
                 ELSE Raises("none")

\* the test of line 83 is negated: an anyOf error is returned as it is and the
\* others are walked, where v['$ref'] on a validator value that holds no
\* mapping raises TypeError once the instance has a `resource`
specific_error_Negated(error) ==
    IF error.validator \in {"anyOf", "oneOf"} THEN Returns(error)
    ELSE IF error.instance.is_dict /\ error.instance.resource # Absent
    THEN Raises("TypeError")
    ELSE Returns(error)

\* no specialization: the error is returned as it is
specific_error_Unspecialized(error) == Returns(error)

RECURSIVE specific_error(_)
specific_error(error) ==
    IF error.validator \notin {"anyOf", "oneOf"} THEN Returns(error)
    ELSE LET t == IF error.instance.is_dict THEN error.instance.type ELSE Absent
             r == IF error.instance.is_dict THEN error.instance.resource ELSE Absent
             byResource == IF r # Absent THEN ByResource(error, r) ELSE Raises("none")
             byType == IF t # Absent THEN ByType(error, t) ELSE Raises("none")
         IN  IF byResource.raised = "recurse" THEN specific_error(byResource.error)
             ELSE IF byResource.raised # "none" THEN byResource
             ELSE IF byType.raised # "none" THEN byType
             ELSE Returns(error)

(***************************************************************************)
(* jsonschema.exceptions.best_match, as called on line 70.                 *)
(***************************************************************************)
\* relevance(error) < relevance(other): the tuples
\* (-len(error.path), validator not in (anyOf, oneOf), validator in ())
LessRelevant(e1, e2) ==
    \/ Len(e1.path) > Len(e2.path)
    \/ /\ Len(e1.path) = Len(e2.path)
       /\ e1.validator \in {"anyOf", "oneOf"}
       /\ e2.validator \notin {"anyOf", "oneOf"}

\* max(errors, key=relevance): the first of the most relevant
MaxRelevant(errors) ==
    errors[First({i \in DOMAIN errors :
                    \A j \in DOMAIN errors : ~LessRelevant(errors[i], errors[j])})]

\* min(errors, key=relevance): the first of the least relevant
MinRelevant(errors) ==
    errors[First({i \in DOMAIN errors :
                    \A j \in DOMAIN errors : ~LessRelevant(errors[j], errors[i])})]

RECURSIVE Descend(_)
Descend(best) == IF best.context = <<>> THEN best ELSE Descend(MinRelevant(best.context))

best_match(errors) == Descend(MaxRelevant(errors))

(***************************************************************************)
(* validate (lines 42-71).  The value returned is a list; its elements are *)
(* validation errors, ValueErrors and strings.                             *)
(***************************************************************************)
ValidationError(e) ==
    [type |-> "ValidationError", validator |-> e.validator, abs_path |-> e.abs_path,
     schema_path |-> e.schema_path, dupes |-> <<>>, str |-> ""]

\* ValueError("Only one policy with a given name allowed, duplicates: ...")
DuplicateError(dupes) ==
    [type |-> "ValueError", validator |-> "", abs_path |-> <<>>, schema_path |-> <<>>,
     dupes |-> dupes, str |-> ""]

Str(s) ==
    [type |-> "str", validator |-> "", abs_path |-> <<>>, schema_path |-> <<>>,
     dupes |-> <<>>, str |-> s]

Returned(list) == [kind |-> "return", raised |-> "", list |-> list]

Raised(exception) == [kind |-> "raise", raised |-> exception, list |-> <<>>]

\* Counter([p['name'] for p in data.get('policies')]), the count of one name
Count(policies, name) == Cardinality({i \in DOMAIN policies : policies[i].name = name})

\* every name is taken for a duplicate
Dupes_CountedOnce(doc) == {doc.policies[i].name : i \in DOMAIN doc.policies}

\* lines 50-54: the names counted more than once
Dupes(doc) ==
    {doc.policies[i].name : i \in {j \in DOMAIN doc.policies :
                                      Count(doc.policies, doc.policies[j].name) > 1}}

\* line 62
ErrorName(error) ==
    IF error.instance.is_dict /\ error.instance.name \notin {Absent, ""}
    THEN error.instance.name ELSE "unknown"

Enumerations(S) ==
    LET n == Cardinality(S)
    IN  {s \in [1..n -> S] : \A i, j \in 1..n : i # j => s[i] # s[j]}

\* the message lists the names of all the policies
validate_errors_AllNames(doc, errors, dupes) ==
    IF errors = <<>> /\ dupes # <<>>
    THEN Returned(<<DuplicateError([i \in DOMAIN doc.policies |-> doc.policies[i].name])>>)
    ELSE Returned(<<>>)

\* the names are counted whatever the structural check found
validate_errors_AlwaysCounts(doc, errors, dupes) ==
    IF errors = <<>>
    THEN IF dupes # <<>> THEN Returned(<<DuplicateError(dupes)>>) ELSE Returned(<<>>)
    ELSE IF dupes # <<>>
    THEN Returned(<<ValidationError(errors[1]), DuplicateError(dupes)>>)
    ELSE Returned(<<ValidationError(errors[1]), Str(ErrorName(errors[1]))>>)

\* an exception of specific_error leaves validate
validate_errors_Propagates(doc, errors, dupes) ==
    IF errors = <<>> THEN Returned(<<>>)
    ELSE IF specific_error(errors[1]).raised = ""
    THEN Returned(<<ValidationError(specific_error(errors[1]).error),
                    Str(ErrorName(errors[1]))>>)
    ELSE Raised(specific_error(errors[1]).raised)

\* lines 48-71 once iter_errors has yielded `errors`; `dupes` is the order in
\* which the Counter enumerates the names counted more than once.
validate_errors(doc, errors, dupes) ==
    IF HasRaise(errors) THEN Raised(RaiseMark)
    ELSE IF errors = <<>>
    THEN IF dupes # <<>> THEN Returned(<<DuplicateError(dupes)>>)
         ELSE Returned(<<>>)
    ELSE LET resp == specific_error(errors[1])
         IN  IF resp.raised = ""
             THEN Returned(<<ValidationError(resp.error), Str(ErrorName(errors[1]))>>)
             ELSE Returned(<<ValidationError(errors[1]),
                             ValidationError(best_match(errors))>>)

\* lines 46-71, validate(data, schema): what the call can produce
validate(doc, schema) ==
    {validate_errors(doc, errors, dupes) :
        errors \in iter_errors(schema, doc), dupes \in Enumerations(Dupes(doc))}

\* line 45, Validator.check_schema: the draft 4 metaschema wants one alternative
\* at least in the anyOf of the policies items; "" when the schema passes
check_schema(schema) == IF schema.policies = <<>> THEN "SchemaError" ELSE ""

\* the generated schema is used without the check of line 45
validate_generated_Unchecked(doc, registry) == validate(doc, generate(registry, {}))

\* lines 43-71, validate(data): the schema is generated from the registry and checked
validate_generated(doc, registry) ==
    LET schema == generate(registry, {})
    IN  IF check_schema(schema) # "" THEN {Raised(check_schema(schema))}
        ELSE validate(doc, schema)

(***************************************************************************)
(* Values the variables of the other operations keep while one operation   *)
(* is being observed.                                                      *)
(***************************************************************************)
NoBuild == [kind |-> "none", resource_types |-> {}, schema |-> <<>>]

NoData == [kind |-> "none", policies |-> <<>>]

NoResult == [kind |-> "none", raised |-> "", list |-> <<>>]

NoReport ==
    [file |-> 0, exists |-> FALSE, format |-> "", content |-> NoData, data |-> NoData,
     policy_raises |-> FALSE, used_before |-> {}, errors |-> <<>>, verdict |-> ""]

PatIdle == nameInput = <<>> /\ nameMatch = "none"

ValIdle == data = NoData /\ schema_arg = "None" /\ result = NoResult

CmdIdle ==
    /\ configs = <<>>
    /\ config = 0
    /\ pc = "idle"
    /\ fileIdx = 0
    /\ cmdData = NoData
    /\ used_policy_names = {}
    /\ exit_patched = FALSE
    /\ exit_calls = <<>>
    /\ raised = ""
    /\ reports = NoReport
    /\ opened = 0

NoArgv == [subparser |-> "", flags |-> {}]

NoOptions == [dests |-> {}, on |-> {}, resource |-> <<>>]

CliIdle ==
    /\ argv = NoArgv
    /\ options = NoOptions
    /\ run_policies = <<>>
    /\ invoked = <<>>
    /\ exit_code = 0
    /\ output = ""

(***************************************************************************)
(* The schema builder as a state machine: the registries are loaded, and   *)
(* generate() is called on them.                                           *)
(***************************************************************************)
RegistrySet(n) == Registries(n)

SwapAt(seq, i) ==
    [j \in DOMAIN seq |-> IF j = i THEN seq[i + 1] ELSE IF j = i + 1 THEN seq[i] ELSE seq[j]]

\* The registries hold the same mappings but a dict enumerates them in an order
\* that depends on how it was filled: two neighbours change places.
Reenumerate ==
    /\ \/ \E i \in 1..(Len(resources) - 1) : resources' = SwapAt(resources, i)
       \/ \E t \in DOMAIN resources :
            \E i \in 1..(Len(resources[t].action_registry) - 1) :
                resources' = [resources EXCEPT ![t].action_registry = SwapAt(@, i)]
       \/ \E t \in DOMAIN resources :
            \E i \in 1..(Len(resources[t].filter_registry) - 1) :
                resources' = [resources EXCEPT ![t].filter_registry = SwapAt(@, i)]
    /\ UNCHANGED <<built, patVars, cliVars, valVars, cmdVars>>

\* A call generate(resource_types) on the loaded registries; `built` keeps the
\* arguments and the document of the latest call.
Generate ==
    /\ \E resource_types \in SUBSET TypeNames :
        built' = [kind |-> "built",
                  resource_types |-> resource_types,
                  schema |-> generate(resources, resource_types)]
    /\ UNCHANGED <<resources, patVars, cliVars, valVars, cmdVars>>

InitGen ==
    /\ resources \in RegistrySet(MaxEntries)
    /\ built = NoBuild
    /\ PatIdle /\ ValIdle /\ CmdIdle /\ CliIdle

NextGen == Reenumerate \/ Generate

SpecGen == InitGen /\ [][NextGen]_vars

(***************************************************************************)
(* The name pattern applied to candidate names.                            *)
(***************************************************************************)
RECURSIVE SeqsUpTo(_, _)
SeqsUpTo(S, n) ==
    IF n = 0 THEN {<<>>}
    ELSE LET shorter == SeqsUpTo(S, n - 1)
         IN  shorter \cup {Append(s, c) : s \in shorter, c \in S}

MatchName ==
    /\ nameMatch = "none"
    /\ nameMatch' = IF PatternMatches(nameInput) THEN "accepted" ELSE "rejected"
    /\ UNCHANGED <<nameInput, genVars, valVars, cmdVars, cliVars>>

InitPat ==
    /\ nameInput \in SeqsUpTo(PatternChars, MaxNameLen)
    /\ nameMatch = "none"
    /\ resources = <<>> /\ built = NoBuild
    /\ ValIdle /\ CmdIdle /\ CliIdle

NextPat == MatchName

SpecPat == InitPat /\ [][NextPat]_vars

(***************************************************************************)
(* schema.validate applied to documents.                                   *)
(***************************************************************************)
RECURSIVE RegisterAll(_, _)
RegisterAll(reg, rs) ==
    IF rs = <<>> THEN reg ELSE RegisterAll(Register(reg, Head(rs)), Tail(rs))

Reg(kind, type, name, cls) == [kind |-> kind, type |-> type, name |-> name, cls |-> cls]

\* The registries the validator is run with: none; one type with one action and
\* one filter; two types, with `tag` and `untag` enumerated in either order.
ValRegistries ==
    {<<>>,
     RegisterAll(<<>>, <<Reg("action", "s3", "tag", "Tag"),
                         Reg("filter", "s3", "value", "ValueFilter")>>),
     RegisterAll(<<>>, <<Reg("action", "s3", "tag", "Tag"),
                         Reg("action", "s3", "untag", "RemoveTag"),
                         Reg("filter", "s3", "value", "ValueFilter"),
                         Reg("action", "ec2", "tag", "Tag")>>),
     RegisterAll(<<>>, <<Reg("action", "ec2", "untag", "RemoveTag"),
                         Reg("action", "s3", "untag", "RemoveTag"),
                         Reg("action", "s3", "tag", "Tag"),
                         Reg("filter", "s3", "age", "AgeFilter")>>)}

PolicyNames == {"foo", "bar", "9x"}

ResourceValues == {"s3", "ec2", "bogus", "policy"}

ActionItems ==
    {StrItem("tag"), StrItem("bogus"),
     MapItem("tag", Absent, 2, TRUE), MapItem("tag", Absent, 2, FALSE),
     MapItem("untag", Absent, 2, TRUE), MapItem("bogus", Absent, 1, TRUE),
     MapItem(Absent, Absent, 1, TRUE), MapItem("tag", "s3", 2, TRUE)}

FilterItems ==
    {StrItem("value"), MapItem(Absent, Absent, 1, TRUE),
     MapItem("value", Absent, 2, TRUE), MapItem("age", Absent, 2, FALSE),
     MapItem("bogus", Absent, 2, TRUE)}

\* Policy entries with no item.
BarePolicies ==
    {StrPolicy, MapPolicy("foo", "policy", FALSE, <<>>, FALSE, <<>>)}
    \cup {MapPolicy(name, resource, FALSE, <<>>, FALSE, <<>>) :
            name \in PolicyNames \cup {Absent},
            resource \in (ResourceValues \ {"policy"}) \cup {Absent}}

WithActions(p, items) == [p EXCEPT !.has_actions = TRUE, !.actions = items]

WithFilters(p, items) == [p EXCEPT !.has_filters = TRUE, !.filters = items]

\* The policy entries that are given items.
ItemPolicies ==
    {MapPolicy("foo", resource, FALSE, <<>>, FALSE, <<>>) :
        resource \in ResourceValues \ {"policy"}}

\* Policy entries with exactly n items.
RECURSIVE PoliciesWith(_)
PoliciesWith(n) ==
    IF n = 0 THEN ItemPolicies
    ELSE {WithActions(p, Append(p.actions, it)) :
            p \in {q \in PoliciesWith(n - 1) : ~q.has_filters}, it \in ActionItems}
         \cup {WithFilters(p, Append(p.filters, it)) :
            p \in PoliciesWith(n - 1), it \in FilterItems}

\* The policy entries that accompany an entry with items.
Partners ==
    {MapPolicy("bar", "s3", FALSE, <<>>, FALSE, <<>>),
     MapPolicy("foo", "bogus", FALSE, <<>>, FALSE, <<>>)}

\* Documents of at most `count` policy entries without items.
BareDocs(count) == {MapDoc(TRUE, ps) : ps \in SeqsUpTo(BarePolicies, count)}

\* Documents with one policy entry of 1..items items, alone or beside a partner.
ItemDocs(items) ==
    LET withItems == UNION {PoliciesWith(k) : k \in 1..items}
    IN  {MapDoc(TRUE, <<p>>) : p \in withItems}
        \cup {MapDoc(TRUE, <<p, q>>) : p \in withItems, q \in Partners}
        \cup {MapDoc(TRUE, <<q, p>>) : p \in withItems, q \in Partners}

\* Documents of MaxRepeats policies of one registered type that differ in name only.
RepeatDocs ==
    {MapDoc(TRUE, [i \in 1..MaxRepeats |->
                      MapPolicy(names[i], "s3", FALSE, <<>>, FALSE, <<>>)]) :
        names \in [1..MaxRepeats -> PolicyNames]}

\* The documents schema.validate is called on.
Docs(count, items) ==
    {NullDoc, MapDoc(FALSE, <<>>)} \cup BareDocs(count) \cup ItemDocs(items) \cup RepeatDocs

\* A call schema.validate(data), or schema.validate(data, generate()).
SchemaValidate ==
    /\ result = NoResult
    /\ result' \in IF schema_arg = "None" THEN validate_generated(data, resources)
                   ELSE validate(data, generate(resources, {}))
    /\ UNCHANGED <<data, schema_arg, genVars, patVars, cliVars, cmdVars>>

InitVal ==
    /\ resources \in ValRegistries
    /\ built = NoBuild
    /\ data \in Docs(MaxPolicies, MaxItems)
    /\ schema_arg \in {"None", "given"}
    /\ result = NoResult
    /\ PatIdle /\ CmdIdle /\ CliIdle

NextVal == SchemaValidate

SpecVal == InitVal /\ [][NextVal]_vars

(***************************************************************************)
(* Properties of schema.validate, checked under SpecVal.                   *)
(***************************************************************************)
TheSchema == generate(resources, {})

Validated == result # NoResult

\* the schema is one the validator accepts: it was passed in, or it passes the self-check
SchemaAccepted == schema_arg = "given" \/ check_schema(TheSchema) = ""

StructurallyValid(doc) == iter_errors(TheSchema, doc) = {<<>>}

\* the names two policies of the document share
DuplicatedNames(doc) ==
    {doc.policies[i].name : i \in {j \in DOMAIN doc.policies :
        \E k \in DOMAIN doc.policies : k # j /\ doc.policies[k].name = doc.policies[j].name}}

\* the names one policy only of the document has
SingleNames(doc) == {doc.policies[i].name : i \in DOMAIN doc.policies} \ DuplicatedNames(doc)

\* C1: a document that is valid against the generated schema and whose policy
\* names are pairwise distinct gets an empty list of errors from
\* schema.validate, and so does the document {policies: []}.
C1_ValidDocumentNoErrors ==
    /\ Validated /\ SchemaAccepted /\ StructurallyValid(data) /\ DuplicatedNames(data) = {}
        => result = Returned(<<>>)
    /\ Validated /\ SchemaAccepted /\ data = MapDoc(TRUE, <<>>)
        => result = Returned(<<>>)

\* two policies of registered types with distinct names were validated
C1_Witness ==
    /\ Validated /\ StructurallyValid(data)
    /\ Len(data.policies) >= 2
    /\ DuplicatedNames(data) = {}
    /\ \A i \in DOMAIN data.policies :
        /\ data.policies[i].resource \in KeySet(resources)
        /\ data.policies[i].name # Absent

\* C2: a document that is valid against the generated schema but for a policy
\* name that occurs more than once gets exactly one error, the duplicate-name
\* error, which lists every duplicated name once and no other name.
C2_DuplicateNamesOneError ==
    Validated /\ DuplicatedNames(data) # {} /\ StructurallyValid(data)
        => /\ result.kind = "return"
           /\ Len(result.list) = 1
           /\ result.list[1].type = "ValueError"
           /\ Range(result.list[1].dupes) = DuplicatedNames(data)
           /\ Len(result.list[1].dupes) = Cardinality(DuplicatedNames(data))

\* a document with a name two policies share and a name one policy has
C2_Witness ==
    /\ Validated /\ StructurallyValid(data)
    /\ DuplicatedNames(data) # {}
    /\ SingleNames(data) # {}
    /\ result.kind = "return" /\ Len(result.list) = 1
    /\ result.list[1].type = "ValueError"

\* the policy is a mapping that is valid once it is given a good name
ValidButName(p) ==
    /\ p.kind = "map"
    /\ p.name # Absent
    /\ p.resource \in KeySet(resources)
    /\ StructurallyValid(MapDoc(TRUE, <<[p EXCEPT !.name = "foo"]>>))

BadNames(doc) == {i \in DOMAIN doc.policies : ~NameMatches(doc.policies[i].name)}

OnlyNameFaults(doc) ==
    /\ doc.kind = "map" /\ doc.has_policies
    /\ \A i \in DOMAIN doc.policies : ValidButName(doc.policies[i])
    /\ BadNames(doc) # {}

\* C6: when the policies of a document are valid but for names that fail the
\* naming pattern, schema.validate returns the `pattern` error located at the
\* name of the first such policy, not the anyOf error of the policies item.
C6_BadNamePatternError ==
    Validated /\ OnlyNameFaults(data)
        => /\ result.kind = "return"
           /\ Len(result.list) >= 1
           /\ result.list[1].type = "ValidationError"
           /\ result.list[1].validator = "pattern"
           /\ result.list[1].abs_path
                = <<K("policies"), I(First(BadNames(data)) - 1), K("name")>>

\* a badly named policy that follows a well named one, with two types registered
C6_Witness ==
    /\ Validated /\ OnlyNameFaults(data)
    /\ First(BadNames(data)) = 2
    /\ Cardinality(KeySet(resources)) = 2
    /\ result.kind = "return"
    /\ result.list[1].validator = "pattern"

(***************************************************************************)
(* The validate command (commands.py, lines 52-100).  A file of the        *)
(* command line is known by its position; whether it exists, its extension *)
(* and its content are found when the loop reaches it.  sys.exit raises    *)
(* SystemExit, which ends the command.                                     *)
(***************************************************************************)
Formats == {"yml", "json", "txt"}

\* The policies the command is run on: valid ones, one with a bad name, one
\* without a name, one that is no mapping, one with an unknown action.
CmdPolicies ==
    {MapPolicy("foo", "s3", FALSE, <<>>, FALSE, <<>>),
     MapPolicy("bar", "s3", TRUE, <<MapItem("tag", Absent, 2, TRUE)>>,
               TRUE, <<MapItem(Absent, Absent, 1, TRUE)>>),
     MapPolicy("9x", "s3", FALSE, <<>>, FALSE, <<>>),
     MapPolicy(Absent, "s3", FALSE, <<>>, FALSE, <<>>),
     MapPolicy("foo", "s3", TRUE, <<MapItem("bogus", Absent, 2, TRUE)>>, FALSE, <<>>),
     StrPolicy}

\* The contents of the config files: no document, no `policies`, no policy,
\* one policy, the two valid policies, one valid policy twice.
CmdDocs ==
    {NullDoc, MapDoc(FALSE, <<>>), MapDoc(TRUE, <<>>)}
    \cup {MapDoc(TRUE, <<p>>) : p \in CmdPolicies}
    \cup {MapDoc(TRUE, <<p, q>>) :
            p \in {MapPolicy("foo", "s3", FALSE, <<>>, FALSE, <<>>)},
            q \in {p \in CmdPolicies : p.name \in {"foo", "bar"} /\ ~p.has_actions}}
    \cup {MapDoc(TRUE, <<p, q>>) :
            p \in {r \in CmdPolicies : r.name = "bar"},
            q \in {r \in CmdPolicies : r.name = "foo" /\ ~r.has_actions}}

\* The contents of the files whose extension the command does not deserialize.
OtherDocs == {MapDoc(TRUE, <<p>>) : p \in {r \in CmdPolicies : r.name = "bar"}}

\* The registries the command is run with.
CmdRegistries == {r \in ValRegistries : "s3" \in KeySet(r) /\ "ec2" \notin KeySet(r)}

\* the names of the policies of a document whose policies all have one
DocNames(doc) == {doc.policies[i].name : i \in DOMAIN doc.policies}

\* the name of the first policy alone is collected
conf_policy_names_FirstOnly(doc) ==
    [raised |-> "",
     names |-> IF doc.policies = <<>> THEN {} ELSE {doc.policies[1].name}]

\* line 75: {p['name'] for p in data.get('policies', ())}, or the exception it raises
conf_policy_names(doc) ==
    IF doc.kind = "null" THEN [raised |-> "AttributeError", names |-> {}]
    ELSE LET bad == {i \in DOMAIN doc.policies :
                        doc.policies[i].kind # "map" \/ doc.policies[i].name = Absent}
         IN  IF bad = {} THEN [raised |-> "", names |-> DocNames(doc)]
             ELSE IF doc.policies[First(bad)].kind # "map"
             THEN [raised |-> "TypeError", names |-> {}]
             ELSE [raised |-> "KeyError", names |-> {}]

\* ValueError("Only one policy with a given name allowed, duplicates: ...") of lines 78-82
CmdDuplicateError(dupes) == DuplicateError(dupes)

\* lines 52-61
StartValidate ==
    /\ pc = "start"
    /\ LET all == IF config # 0 THEN Append(configs, config) ELSE configs
       IN  /\ configs' = all
           /\ IF Len(all) < 1
              THEN /\ exit_calls' = Append(exit_calls, 2)
                   /\ pc' = IF exit_patched THEN "loop" ELSE "exited"
              ELSE /\ exit_calls' = exit_calls
                   /\ pc' = "loop"
    /\ used_policy_names' = {}
    /\ UNCHANGED <<config, fileIdx, cmdData, exit_patched, raised, reports, opened,
                   genVars, patVars, cliVars, valVars>>

\* The outcome of one iteration of the loop of lines 62-100 on a file.
Iteration(file, exists, format, content, errors_in, dupes_order, policy_raises) ==
    LET parsed == IF format \in {"yml", "yaml", "json"} THEN content ELSE cmdData
        names == conf_policy_names(parsed)
        dupes == names.names \cap used_policy_names
        errors == IF dupes # {}
                  THEN Append(errors_in.list, CmdDuplicateError(dupes_order))
                  ELSE errors_in.list
        \* lines 84-87: Policy(p, null_config, Bag()) is called
        constructs == /\ exists /\ parsed # NoData /\ errors_in.kind = "return"
                      /\ names.raised = "" /\ errors = <<>> /\ parsed.policies # <<>>
        report == [NoReport EXCEPT !.file = file, !.exists = exists, !.format = format,
                                   !.content = content,
                                   !.policy_raises = policy_raises /\ constructs,
                                   !.used_before = used_policy_names]
        Stop(exception, d) ==
            [pc |-> "raised", raised |-> exception, exit |-> <<>>, data |-> d,
             used |-> used_policy_names, opened |-> IF exists THEN 1 ELSE 0,
             report |-> [report EXCEPT !.data = d, !.verdict = "raised"]]
    IN  IF ~exists THEN Stop("ValueError", cmdData)
        ELSE IF parsed = NoData THEN Stop("UnboundLocalError", cmdData)
        ELSE IF errors_in.kind = "raise" THEN Stop(errors_in.raised, parsed)
        ELSE IF names.raised # "" THEN Stop(names.raised, parsed)
        ELSE IF errors = <<>> /\ ~(policy_raises /\ constructs)
        THEN [pc |-> "loop", raised |-> "", exit |-> <<>>, data |-> parsed,
              used |-> used_policy_names \cup names.names, opened |-> 1,
              report |-> [report EXCEPT !.data = parsed, !.verdict = "valid"]]
        ELSE [pc |-> IF ~exit_patched THEN "exited"
                     ELSE IF errors = <<>> THEN "done" ELSE "loop",
              raised |-> "", exit |-> <<1>>, data |-> parsed,
              used |-> used_policy_names \cup names.names, opened |-> 1,
              report |-> [report EXCEPT !.data = parsed, !.errors = errors,
                                        !.verdict = IF errors = <<>> THEN "policy invalid"
                                                    ELSE "invalid"]]

\* lines 62-100: one config file
ProcessFile ==
    /\ pc = "loop"
    /\ fileIdx < Len(configs)
    /\ \E exists \in BOOLEAN, format \in Formats, policy_raises \in BOOLEAN :
       \E content \in IF ~exists THEN {NoData}
                      ELSE IF format = "txt" THEN OtherDocs ELSE CmdDocs :
        LET parsed == IF format \in {"yml", "yaml", "json"} THEN content ELSE cmdData
            outcomes == IF exists /\ parsed # NoData
                        THEN validate_generated(parsed, resources)
                        ELSE {NoResult}
            shared == conf_policy_names(parsed).names \cap used_policy_names
        IN  \E errors_in \in outcomes, dupes_order \in Enumerations(shared) :
                LET out == Iteration(fileIdx + 1, exists, format, content, errors_in,
                                     dupes_order, policy_raises)
                IN  /\ pc' = out.pc
                    /\ raised' = out.raised
                    /\ exit_calls' = exit_calls \o out.exit
                    /\ cmdData' = out.data
                    /\ used_policy_names' = out.used
                    /\ opened' = opened + out.opened
                    /\ reports' = out.report
    /\ fileIdx' = fileIdx + 1
    /\ UNCHANGED <<configs, config, exit_patched, genVars, patVars, cliVars, valVars>>

\* the loop of line 62 is exhausted: the command returns
FinishValidate ==
    /\ pc = "loop"
    /\ fileIdx = Len(configs)
    /\ pc' = "done"
    /\ UNCHANGED <<configs, config, fileIdx, cmdData, used_policy_names, exit_patched,
                   exit_calls, raised, reports, opened, genVars, patVars, cliVars, valVars>>

Init ==
    /\ resources \in CmdRegistries
    /\ built = NoBuild
    /\ PatIdle /\ ValIdle /\ CliIdle
    /\ configs \in {[i \in 1..n |-> i] : n \in 0..MaxFiles}
    /\ config \in {0, MaxFiles + 1}
    /\ pc = "start"
    /\ fileIdx = 0
    /\ cmdData = NoData
    /\ used_policy_names = {}
    /\ exit_patched \in BOOLEAN
    /\ exit_calls = <<>>
    /\ raised = ""
    /\ reports = NoReport
    /\ opened = 0

Next == StartValidate \/ ProcessFile \/ FinishValidate

Spec == Init /\ [][Next]_vars

(***************************************************************************)
(* The command line (cli.py, lines 112-213) with the run command           *)
(* (commands.py, lines 102-116) and the schema command (lines 150-235).    *)
(* A Namespace is known by the attributes it has (dests), by those of them *)
(* whose value is true in a condition (on), and by the components of its   *)
(* `resource`, the pieces options.resource.split('.') gives (<<>> when it  *)
(* has no such attribute or the attribute is None).                        *)
(***************************************************************************)
Subcommands == {"run", "schema"}

\* the flags of a subparser that take no value
ParserFlags(subparser) ==
    IF subparser = "schema" THEN {"--summarize", "--json", "-v"}
    ELSE {"--debug", "-v", "-d"}

\* argparse derives the attribute from the first long option string
FlagDest(flag) ==
    CASE flag = "--summarize" -> "summarize"
      [] flag = "--json" -> "json"
      [] flag = "-v" -> "verbose"
      [] flag = "--debug" -> "debug"
      [] flag = "-d" -> "dryrun"

\* the attributes the subparser gives the Namespace: cli.py lines 164-172 for
\* schema, lines 179-186 with 26-62 and 97-100 for run; line 117 for subparser
ParserDests(subparser) ==
    IF subparser = "schema"
    THEN {"subparser", "command", "summarize", "json", "verbose"}
    ELSE {"subparser", "command", "region", "profile", "assume_role", "config",
          "policy_filter", "resource_type", "verbose", "debug", "log_group",
          "output_dir", "cache", "cache_period", "dryrun", "metrics_enabled"}

\* parser.parse_args() on a command line the parser accepts; -c and -s of run
\* are required and given
parse_args(args) ==
    [dests |-> ParserDests(args.subparser),
     on |-> {FlagDest(f) : f \in args.flags} \cup {"subparser", "command"}
            \cup (IF args.subparser = "run"
                  THEN {"region", "config", "output_dir", "cache", "cache_period"}
                  ELSE {}),
     resource |-> <<>>]

HasAttr(namespace, attr) == attr \in namespace.dests

IsOn(namespace, attr) == attr \in namespace.on

SchemaOutcome(exception, exit, printed) ==
    [raised |-> exception, exit |-> exit, output |-> printed]

\* str.lower on one character: a capital letter of A-Z becomes its small
\* letter, every other character of a selector (small letters, digits, "-",
\* "_") is kept
LowerChar(c) ==
    CASE c = "A" -> "a"
      [] c = "B" -> "b"
      [] c = "C" -> "c"
      [] c = "D" -> "d"
      [] c = "E" -> "e"
      [] c = "F" -> "f"
      [] c = "G" -> "g"
      [] c = "H" -> "h"
      [] c = "I" -> "i"
      [] c = "J" -> "j"
      [] c = "K" -> "k"
      [] c = "L" -> "l"
      [] c = "M" -> "m"
      [] c = "N" -> "n"
      [] c = "O" -> "o"
      [] c = "P" -> "p"
      [] c = "Q" -> "q"
      [] c = "R" -> "r"
      [] c = "S" -> "s"
      [] c = "T" -> "t"
      [] c = "U" -> "u"
      [] c = "V" -> "v"
      [] c = "W" -> "w"
      [] c = "X" -> "x"
      [] c = "Y" -> "y"
      [] c = "Z" -> "z"
      [] OTHER -> c

RECURSIVE lower(_)
\* str.lower, as commands.py lines 190, 204 and 219 call it on a component of
\* the selector: the string with every character lowered
lower(s) ==
    IF s = "" THEN ""
    ELSE LowerChar(SubSeq(s, 1, 1)) \o lower(SubSeq(s, 2, Len(s)))

\* schema.py lines 324-344: the names registered for every type, with the
\* names that have an entry in `docs`
resource_vocabulary(registry) ==
    [t \in KeySet(registry) |->
        [filters |-> NamesOf(Lookup(registry, t).filter_registry),
         actions |-> NamesOf(Lookup(registry, t).action_registry),
         docs |-> [actions |-> NamesOf(Lookup(registry, t).action_registry),
                   filters |-> NamesOf(Lookup(registry, t).filter_registry)]]]

\* commands.py lines 150-235, schema(options), with the registry that
\* load_resources filled; `patched` says that sys.exit was replaced by a
\* function that returns, as the tests do.  Reading an attribute the Namespace
\* lacks raises AttributeError; json_dump takes no argument (schema.py line
\* 365).  A selector that is not valid is reported and sys.exit(2) is called
\* (lines 191-193, 205-207, 220-222, 233-235); when that call returns the
\* command goes on, to a KeyError (lines 196, 211, 220, 225) or to the next
\* test.  `exit` lists the statuses sys.exit was called with.
schema(opts, registry, patched) ==
    IF ~HasAttr(opts, "json") THEN SchemaOutcome("AttributeError", <<>>, "")
    ELSE IF IsOn(opts, "json")
    THEN IF ~HasAttr(opts, "resource") THEN SchemaOutcome("AttributeError", <<>>, "")
         ELSE SchemaOutcome("TypeError", <<>>, "")
    ELSE IF ~HasAttr(opts, "summary") THEN SchemaOutcome("AttributeError", <<>>, "")
    ELSE IF IsOn(opts, "summary") THEN SchemaOutcome("", <<>>, "summary")
    ELSE IF ~HasAttr(opts, "resource") THEN SchemaOutcome("AttributeError", <<>>, "")
    ELSE IF ~IsOn(opts, "resource") THEN SchemaOutcome("", <<>>, "resources")
    ELSE
    LET resource_mapping == resource_vocabulary(registry)
        components == IF opts.resource = <<>> THEN <<"">> ELSE opts.resource
        resource == lower(components[1])
        known == resource \in DOMAIN resource_mapping
        exit1 == IF known THEN <<>> ELSE <<2>>
    IN  IF ~known /\ ~patched THEN SchemaOutcome("", exit1, "selector")
        ELSE IF Len(components) = 1
        THEN SchemaOutcome(IF known THEN "" ELSE "KeyError", exit1, "selector")
        ELSE
        LET category == lower(components[2])
            valid == category \in {"actions", "filters"}
            exit2 == exit1 \o (IF valid THEN <<>> ELSE <<2>>)
        IN  IF ~valid /\ ~patched THEN SchemaOutcome("", exit2, "selector")
            ELSE IF Len(components) = 2
            THEN SchemaOutcome(IF known THEN "" ELSE "KeyError", exit2, "selector")
            ELSE IF ~known \/ category \notin DOMAIN resource_mapping[resource]
            THEN SchemaOutcome("KeyError", exit2, "selector")
            ELSE
            LET item == lower(components[3])
                listed == IF category = "docs"
                          THEN DOMAIN resource_mapping[resource].docs
                          ELSE resource_mapping[resource][category]
                exit3 == exit2 \o (IF item \in listed THEN <<>> ELSE <<2>>)
                docs == resource_mapping[resource].docs
            IN  IF item \notin listed /\ ~patched
                THEN SchemaOutcome("", exit3, "selector")
                ELSE IF Len(components) > 3
                THEN SchemaOutcome("", exit3 \o <<2>>, "selector")
                ELSE IF category \notin DOMAIN docs
                THEN SchemaOutcome("KeyError", exit3, "selector")
                ELSE IF item \notin docs[category]
                THEN SchemaOutcome("KeyError", exit3, "selector")
                ELSE SchemaOutcome("", exit3, "selector")

\* the loop stops at a policy that raises, whatever options.debug is
run_iteration_StopsAtError(raises, debug, code) ==
    IF ~raises THEN [exit_code |-> code, raised |-> ""]
    ELSE [exit_code |-> 1, raised |-> "Exception"]

\* commands.py lines 106-115, one iteration of the loop of run: the policy is
\* called and raises an Exception or returns
run_iteration(raises, debug, code) ==
    IF ~raises THEN [exit_code |-> code, raised |-> ""]
    ELSE IF debug THEN [exit_code |-> 1, raised |-> "Exception"]
    ELSE [exit_code |-> 1, raised |-> ""]

\* cli.py lines 191-208: the command line is parsed, logging is set up from
\* options.verbose and the command is called; for run, policy_command
\* (commands.py lines 41-49) has loaded and selected the policies.
Main ==
    /\ pc = "start"
    /\ options' = parse_args(argv)
    /\ pc' = argv.subparser
    /\ UNCHANGED <<argv, run_policies, invoked, exit_code, output, configs, config, fileIdx,
                   cmdData, used_policy_names, exit_patched, exit_calls, raised, reports,
                   opened, genVars, patVars, valVars>>

\* commands.py lines 105-115: the next policy is called
RunPolicy ==
    /\ pc = "run"
    /\ Len(invoked) < Len(run_policies)
    /\ LET i == Len(invoked) + 1
           out == run_iteration(run_policies[i] = "raise", IsOn(options, "debug"),
                                exit_code)
       IN  /\ invoked' = Append(invoked, i)
           /\ exit_code' = out.exit_code
           /\ raised' = out.raised
           /\ pc' = IF out.raised # "" THEN "except" ELSE "run"
    /\ UNCHANGED <<argv, options, run_policies, output, configs, config, fileIdx, cmdData,
                   used_policy_names, exit_patched, exit_calls, reports, opened,
                   genVars, patVars, valVars>>

\* commands.py line 116: sys.exit(exit_code) after the loop
RunExit ==
    /\ pc = "run"
    /\ Len(invoked) = Len(run_policies)
    /\ exit_calls' = Append(exit_calls, exit_code)
    /\ pc' = IF exit_patched THEN "done" ELSE "exited"
    /\ UNCHANGED <<cliVars, configs, config, fileIdx, cmdData, used_policy_names,
                   exit_patched, raised, reports, opened, genVars, patVars, valVars>>

\* commands.py lines 150-235: the schema command
SchemaCommand ==
    /\ pc = "schema"
    /\ LET out == schema(options, resources, exit_patched)
       IN  /\ output' = out.output
           /\ raised' = out.raised
           /\ exit_calls' = exit_calls \o out.exit
           /\ pc' = IF out.raised # "" THEN "except"
                    ELSE IF out.exit # <<>> /\ ~exit_patched THEN "exited"
                    ELSE "done"
    /\ UNCHANGED <<argv, options, run_policies, invoked, exit_code, configs, config, fileIdx,
                   cmdData, used_policy_names, exit_patched, reports, opened,
                   genVars, patVars, valVars>>

\* cli.py lines 209-213: the handler of main; it raises again unless
\* options.debug is on, and then prints the traceback and starts the debugger
MainExcept ==
    /\ pc = "except"
    /\ IF ~HasAttr(options, "debug")
       THEN raised' = "AttributeError" /\ pc' = "raised"
       ELSE IF ~IsOn(options, "debug")
       THEN raised' = raised /\ pc' = "raised"
       ELSE raised' = raised /\ pc' = "post_mortem"
    /\ UNCHANGED <<cliVars, configs, config, fileIdx, cmdData, used_policy_names,
                   exit_patched, exit_calls, reports, opened, genVars, patVars, valVars>>

\* The command lines: a subcommand with flags of its subparser; for run, what
\* each of the selected policies does when it is called.
InitCli ==
    /\ resources = <<>> /\ built = NoBuild
    /\ PatIdle /\ ValIdle
    /\ argv \in {[subparser |-> sub, flags |-> flags] :
                    sub \in Subcommands, flags \in SUBSET ParserFlags("schema")
                                                   \cup SUBSET ParserFlags("run")}
    /\ argv.flags \subseteq ParserFlags(argv.subparser)
    /\ run_policies \in IF argv.subparser = "run"
                        THEN SeqsUpTo({"ok", "raise"}, MaxRunPolicies)
                        ELSE {<<>>}
    /\ options = NoOptions
    /\ invoked = <<>>
    /\ exit_code = 0
    /\ output = ""
    /\ configs = <<>> /\ config = 0 /\ fileIdx = 0 /\ cmdData = NoData
    /\ used_policy_names = {}
    /\ reports = NoReport /\ opened = 0
    /\ exit_patched \in BOOLEAN
    /\ exit_calls = <<>>
    /\ raised = ""
    /\ pc = "start"

NextCli == Main \/ RunPolicy \/ RunExit \/ SchemaCommand \/ MainExcept

SpecCli == InitCli /\ [][NextCli]_vars

(***************************************************************************)
(* Properties of the policy name pattern, checked under SpecPat.           *)
(***************************************************************************)
Matched == nameMatch # "none"

\* letters, digits and hyphens only; a letter first; no hyphen last; no two
\* hyphens in a row
ClaimedName(s) ==
    /\ s # <<>>
    /\ \A i \in DOMAIN s : s[i] \in {"a", "0", "-"}
    /\ s[1] = "a"
    /\ s[Len(s)] # "-"
    /\ \A i \in 1..(Len(s) - 1) : ~(s[i] = "-" /\ s[i + 1] = "-")

\* the name without the one newline that may end it
Chomp(s) == IF s # <<>> /\ s[Len(s)] = "LF" THEN SubSeq(s, 1, Len(s) - 1) ELSE s

\* characters of the range A-z, digits and hyphens only; a character of A-z
\* first; after every hyphen a segment that holds a character of A-z
AcceptedBody(t) ==
    /\ t # <<>>
    /\ \A i \in DOMAIN t : t[i] \in {"a", "_", "0", "-"}
    /\ t[1] \in {"a", "_"}
    /\ \A i \in DOMAIN t :
        t[i] = "-" => \E j \in (i + 1)..Len(t) :
                        /\ t[j] \in {"a", "_"}
                        /\ \A k \in (i + 1)..j : t[k] # "-"

AmendedName(s) == AcceptedBody(Chomp(s))

\* C7 as stated: the pattern accepts a name exactly when it starts with a
\* letter and is made of non-empty alphanumeric segments joined by single
\* hyphens.
C7_AsStated == Matched => (nameMatch = "accepted" <=> ClaimedName(nameInput))

\* C7, amended: the pattern accepts a name exactly when, one final newline
\* set aside, it is made of characters of the range A-z (the letters and
\* [ \ ] ^ _ `), digits and hyphens, starts with a character of A-z, and every
\* hyphen is followed by a segment that holds a character of A-z.
C7_PatternAccepts == Matched => (nameMatch = "accepted" <=> AmendedName(nameInput))

\* an accepted name of two segments, the second with a digit and an underscore
C7_Witness ==
    /\ nameMatch = "accepted"
    /\ nameInput = <<"a", "-", "0", "_">>

(***************************************************************************)
(* Properties of generate, checked under SpecGen.                          *)
(***************************************************************************)
Built == built.kind = "built"

BuiltDefs == built.schema.definitions.resources

\* C8 as stated: the document of a build is the document any build from the
\* same name-to-implementation mappings gives, whatever the order in which
\* the registries enumerate their entries.
C8_AsStated ==
    Built => built.schema = generate(resources, built.resource_types)

\* C9 as stated: every name registered as an action or a filter of a type of
\* the build, aliases included, has a definition under the type and a $ref in
\* the alternatives of the type's policy.
C9_AsStated ==
    Built =>
        \A t \in DOMAIN BuiltDefs :
            /\ \A n \in KeySet(Lookup(resources, t).action_registry) :
                /\ n \in DOMAIN BuiltDefs[t].actions
                /\ ActionRef(t, n) \in Range(BuiltDefs[t].policy.actions)
            /\ \A n \in KeySet(Lookup(resources, t).filter_registry) :
                /\ n \in DOMAIN BuiltDefs[t].filters
                /\ FilterRef(t, n) \in Range(BuiltDefs[t].policy.filters)

\* the alternatives C10 names: a $ref per filter of the type and the key=value shortcut
NestedAlternatives(t) ==
    {FilterRef(t, n) : n \in KeySet(Lookup(resources, t).filter_registry)}
    \cup {SharedFilterRef("valuekv")}

\* C10 as stated: for a type whose filters include `and` or `or`, the
\* document defines the combinator as an array whose items match any of the
\* nested alternatives, and the type's policy accepts a $ref to it.
C10_AsStated ==
    Built =>
        \A t \in DOMAIN BuiltDefs :
            \A n \in KeySet(Lookup(resources, t).filter_registry) \cap {"and", "or"} :
                /\ n \in DOMAIN BuiltDefs[t].filters
                /\ BuiltDefs[t].filters[n].kind = "array"
                /\ Range(BuiltDefs[t].filters[n].anyOf) \subseteq NestedAlternatives(t)
                /\ FilterRef(t, n) \in Range(BuiltDefs[t].policy.filters)

\* the filters registered for a type of the build
RegisteredFilters(t) == Lookup(resources, t).filter_registry

\* C18 as stated: for every type of the build, a filter registered as `value`
\* is defined as a $ref to definitions.filters.value, with a `valuekv` entry
\* that refers to definitions.filters.valuekv; a filter registered as `event`
\* is defined as a $ref to definitions.filters.event; a filter of any other
\* name but `and` and `or` is defined as its implementation's own fragment.
C18_AsStated ==
    Built =>
        \A t \in DOMAIN BuiltDefs :
            \A n \in KeySet(RegisteredFilters(t)) \ {"and", "or"} :
                /\ n \in DOMAIN BuiltDefs[t].filters
                /\ n = "value" =>
                    /\ BuiltDefs[t].filters[n] = SharedFilterRef("value")
                    /\ "valuekv" \in DOMAIN BuiltDefs[t].filters
                    /\ BuiltDefs[t].filters["valuekv"] = SharedFilterRef("valuekv")
                /\ n = "event" => BuiltDefs[t].filters[n] = SharedFilterRef("event")
                /\ n \notin {"value", "event"} =>
                    BuiltDefs[t].filters[n] = ClassSchema(Lookup(RegisteredFilters(t), n).cls)

\* the types a build includes: all the registered ones when the filter is
\* empty, else the registered ones it names
Included ==
    {t \in KeySet(resources) : built.resource_types = {} \/ t \in built.resource_types}

RefsOf(alternatives) == {alt \in Range(alternatives) : alt.kind = "$ref"}

EnumsOf(alternatives) == {alt \in Range(alternatives) : alt.kind = "enum"}

\* C19: for every type T a build includes, definitions.resources[T].policy is
\* the allOf of a $ref to definitions.policy and an overlay whose `resource`
\* is the enum [T] and whose `actions` and `filters` items are anyOf the $refs
\* to the definitions emitted under T (and the key=value shortcut), followed
\* by the enum of T's registered names; the anyOf of the policies items holds
\* one $ref per included type and nothing else; definitions.policy is the
\* same in every build, the `query` property being added to the overlay of
\* ec2 alone.
C19_PolicyComposition ==
    Built =>
        /\ DOMAIN BuiltDefs = Included
        /\ Len(built.schema.policies) = Cardinality(Included)
        /\ Range(built.schema.policies) = {PolicyRef(t) : t \in Included}
        /\ built.schema.definitions.policy = generate(<<>>, {}).definitions.policy
        /\ \A t \in Included :
            LET policy == BuiltDefs[t].policy
            IN  /\ policy.allOf0 = Ref(<<"#", "definitions", "policy">>)
                /\ policy.resource = EnumOf(<<t>>)
                /\ policy.query = (t = "ec2")
                /\ RefsOf(policy.actions)
                    = {ActionRef(t, n) : n \in DOMAIN BuiltDefs[t].actions}
                /\ RefsOf(policy.filters)
                    = {FilterRef(t, n) : n \in DOMAIN BuiltDefs[t].filters \ {"valuekv"}}
                        \cup {SharedFilterRef("valuekv")}
                /\ \E e \in EnumsOf(policy.actions) :
                    /\ EnumsOf(policy.actions) = {e}
                    /\ policy.actions[Len(policy.actions)] = e
                    /\ Range(e.enum) = KeySet(Lookup(resources, t).action_registry)
                /\ \E e \in EnumsOf(policy.filters) :
                    /\ EnumsOf(policy.filters) = {e}
                    /\ policy.filters[Len(policy.filters)] = e
                    /\ Range(e.enum) = KeySet(Lookup(resources, t).filter_registry)

\* a build of s3 and ec2, s3 with an action: two $refs in the policies anyOf,
\* the query property in the overlay of ec2
C19_Witness ==
    /\ Built /\ built.resource_types = {}
    /\ Included = {"s3", "ec2"}
    /\ Len(built.schema.policies) = 2
    /\ BuiltDefs["ec2"].policy.query /\ ~BuiltDefs["s3"].policy.query
    /\ Cardinality(RefsOf(BuiltDefs["s3"].policy.actions)) = 1

(***************************************************************************)
(* Properties of the validate command, checked under Spec.                 *)
(***************************************************************************)
Processed == reports.file >= 1

\* the file exists and has an extension the command deserializes
Deserialized == reports.exists /\ reports.format \in {"yml", "yaml", "json"}

\* the file passes on its own: schema.validate finds nothing in its content
\* and every policy of it can be constructed
IndividuallyValid ==
    /\ Deserialized
    /\ StructurallyValid(reports.content)
    /\ DuplicatedNames(reports.content) = {}
    /\ ~reports.policy_raises

\* the names the file shares with the files processed before it
SharedNames == DocNames(reports.content) \cap reports.used_before

\* C3: a config file that is valid on its own is reported invalid with exactly
\* one duplicate-name error that names the policy names it shares with the
\* files processed before it in the run, is reported valid when it shares
\* none, and the used names after it are those before it and its own.
C3_CrossFileDuplicates ==
    Processed /\ IndividuallyValid =>
        /\ SharedNames = {} => reports.verdict = "valid" /\ reports.errors = <<>>
        /\ SharedNames # {} =>
            /\ reports.verdict = "invalid"
            /\ Len(reports.errors) = 1
            /\ reports.errors[1].type = "ValueError"
            /\ Range(reports.errors[1].dupes) = SharedNames
            /\ Len(reports.errors[1].dupes) = Cardinality(SharedNames)
        /\ used_policy_names = reports.used_before \cup DocNames(reports.content)

\* the third file of a run shares two names with the two files before it
C3_Witness ==
    /\ Processed /\ IndividuallyValid
    /\ reports.file = 3
    /\ Cardinality(SharedNames) = 2
    /\ reports.verdict = "invalid"
    /\ exit_calls = <<1>>

\* the content of the file does not pass schema.validate
InvalidContent ==
    Deserialized /\ (~StructurallyValid(reports.content)
                     \/ DuplicatedNames(reports.content) # {})

LastExit == IF exit_calls = <<>> THEN 0 ELSE exit_calls[Len(exit_calls)]

\* C4 as stated: without a config file the command exits with status 2 and
\* reads no file; a file whose content is invalid makes it exit with status 1;
\* a path that does not exist makes it raise ValueError without an exit call;
\* a valid file makes no exit call.
C4_AsStated ==
    /\ pc # "start" /\ configs = <<>> => exit_calls = <<2>> /\ opened = 0 /\ raised = ""
    /\ Processed /\ InvalidContent => LastExit = 1 /\ raised = ""
    /\ Processed /\ ~reports.exists =>
        raised = "ValueError" /\ Len(exit_calls) = Len(SelectSeq(exit_calls, LAMBDA c : c = 1))
    /\ Processed /\ IndividuallyValid /\ SharedNames = {} /\ reports.file = 1 =>
        exit_calls = <<>> /\ raised = ""

\* C5 as stated: a deserialized document that violates the schema is reported
\* with its validation errors and the command exits with status 1; the
\* command does not end with an exception.
C5_AsStated ==
    Processed /\ Deserialized /\ ~StructurallyValid(reports.content) =>
        /\ raised = ""
        /\ reports.verdict = "invalid"
        /\ reports.errors # <<>>
        /\ LastExit = 1

(***************************************************************************)
(* Properties of the specialization of errors (schema.py, lines 60-126),   *)
(* checked under SpecVal.                                                  *)
(***************************************************************************)
\* the names of the actions registered for a resource type
RegisteredActions(t) ==
    IF t \in KeySet(resources) THEN KeySet(Lookup(resources, t).action_registry) ELSE {}

\* the items of `actions` that are mappings whose `type`, their discriminator,
\* names no action registered for the policy's resource type
UnregisteredActions(p) ==
    {j \in DOMAIN p.actions :
        /\ p.actions[j].kind = "map"
        /\ p.actions[j].type \notin RegisteredActions(p.resource) \cup {Absent}}

\* the policy is of a registered type and is valid once the action items of
\* an unregistered type are taken out of it
OnlyUnregisteredActions(p) ==
    /\ p.kind = "map"
    /\ p.resource \in KeySet(resources)
    /\ UnregisteredActions(p) # {}
    /\ LET rest == SelectSeq(p.actions, LAMBDA it : it.kind # "map"
                                \/ it.type \in RegisteredActions(p.resource) \cup {Absent})
       IN  StructurallyValid(MapDoc(TRUE, <<[p EXCEPT !.actions = rest]>>))

\* the policies that are valid as they are
ValidPolicies(doc) ==
    {i \in DOMAIN doc.policies : StructurallyValid(MapDoc(TRUE, <<doc.policies[i]>>))}

\* the first policy that is not valid has unregistered action types for only fault
FirstFaultIsAction(doc) ==
    /\ doc.kind = "map" /\ doc.has_policies
    /\ \E i \in DOMAIN doc.policies : UnregisteredActions(doc.policies[i]) # {}
    /\ LET faulty == DOMAIN doc.policies \ ValidPolicies(doc)
       IN  faulty # {} /\ OnlyUnregisteredActions(doc.policies[First(faulty)])

\* the place of the first unregistered action item of the first faulty policy
FaultPath(doc) ==
    LET k == First(DOMAIN doc.policies \ ValidPolicies(doc))
    IN  <<K("policies"), I(k - 1), K("actions"),
          I(First(UnregisteredActions(doc.policies[k])) - 1)>>

\* what the validate command does with the result when the document is the
\* content of the first file of a run
CommandOn(doc, errors) == Iteration(1, TRUE, "yml", doc, errors, <<>>, FALSE)

\* C11 as stated: when the first failing policy of a document is of a
\* registered type and has for only fault action items whose type is not
\* registered for that resource type, the first error schema.validate returns
\* lies inside that policy's `actions` array, at the first such item, and is
\* not the mismatch of the policies item; a validate command that gets this
\* result for a file calls exit with status 1.
C11_AsStated ==
    Validated /\ SchemaAccepted /\ FirstFaultIsAction(data)
        => /\ result.kind = "return"
           /\ Len(result.list) >= 1
           /\ result.list[1].type = "ValidationError"
           /\ Len(result.list[1].abs_path) >= 4
           /\ SubSeq(result.list[1].abs_path, 1, 4) = FaultPath(data)
           /\ CommandOn(data, result).exit = <<1>>
           /\ CommandOn(data, result).report.verdict = "invalid"

\* the error is of anyOf or oneOf and its instance names no alternative: it is
\* no mapping, or its `resource` is in no $ref and no $ref ends with its `type`
NoDiscriminator(e) ==
    /\ e.validator \in {"anyOf", "oneOf"}
    /\ \/ ~e.instance.is_dict
       \/ /\ \/ e.instance.resource = Absent
             \/ \A i \in DOMAIN e.validator_value :
                    /\ e.validator_value[i].kind = "$ref"
                    /\ ~InRSplit2(e.instance.resource, e.validator_value[i].ref)
          /\ \/ e.instance.type = Absent
             \/ \A i \in DOMAIN e.validator_value :
                    e.validator_value[i].kind = "$ref"
                        => ~EndsWith(RefChars(e.validator_value[i].ref),
                                     Chars(e.instance.type))

\* the errors iter_errors can yield for the validated document
RawErrors == iter_errors(TheSchema, data)

\* C12: schema.validate raises no exception of the specialization: when no
\* discriminator of the first raw error names an alternative, the first
\* element returned is that error itself, and when specific_error raises
\* (KeyError for an alternative without $ref, IndexError) the first element
\* returned is the first raw error, unspecialized.
C12_SpecializationBestEffort ==
    Validated /\ SchemaAccepted
        => LET yielded == RawErrors
           IN  yielded # {<<>>}
                => /\ result.kind = "return"
                   /\ \E errors \in yielded :
                        LET resp == specific_error(errors[1])
                        IN  /\ errors # <<>>
                            /\ Len(result.list) >= 1
                            /\ NoDiscriminator(errors[1])
                                => result.list[1] = ValidationError(errors[1])
                            /\ resp.raised # ""
                                => result.list[1] = ValidationError(errors[1])
                            /\ resp.raised = ""
                                => result.list[1] = ValidationError(resp.error)

\* an action item with a `resource` key of its own made line 94 raise KeyError
\* on the alternative that is an enum, and validate returned the first error
C12_Witness ==
    /\ Validated /\ SchemaAccepted
    /\ \E errors \in RawErrors :
        /\ errors # <<>>
        /\ specific_error(errors[1]).raised = "KeyError"
        /\ result = Returned(<<ValidationError(errors[1]),
                               ValidationError(best_match(errors))>>)
        /\ errors[1].abs_path = <<K("policies"), I(0)>>

\* a policy of an unregistered resource type: no discriminator names an alternative
C12_WitnessNoMatch ==
    /\ Validated /\ SchemaAccepted
    /\ \E errors \in RawErrors :
        /\ errors # <<>>
        /\ NoDiscriminator(errors[1])
        /\ errors[1].instance.resource = "bogus"
        /\ result.list[1] = ValidationError(errors[1])

\* C13 as stated: for a document with structural errors schema.validate
\* returns a single error, and every element of a sequence it returns is a
\* validation error (a policy name goes with duplicate-name failures only).
C13_AsStated ==
    Validated /\ result.kind = "return"
        => /\ \A i \in DOMAIN result.list :
                result.list[i].type \in {"ValidationError", "ValueError"}
           /\ ~StructurallyValid(data) => Len(result.list) = 1

(***************************************************************************)
(* Properties of validation against a schema without resource types,       *)
(* checked under SpecVal.                                                  *)
(***************************************************************************)
\* no registered type passes the filter: nothing is registered, or the filter
\* is not empty and names no registered type
NoneSurvives(resource_types) ==
    \/ resources = <<>>
    \/ resource_types # {} /\ resource_types \cap KeySet(resources) = {}

HasPolicyEntry(doc) == doc.kind = "map" /\ doc.has_policies /\ doc.policies # <<>>

\* C14: when no resource type is registered, or none passes the filter given
\* to generate, the `anyOf` of the policies items is the empty list, and the
\* errors of any document with a policy entry validated against that schema
\* are one at least; schema.validate on the document and that schema returns
\* a sequence that is not empty.
C14_NoTypeEveryPolicyFails ==
    /\ \A resource_types \in SUBSET TypeNames :
        NoneSurvives(resource_types)
            => /\ generate(resources, resource_types).policies = <<>>
               /\ Validated /\ HasPolicyEntry(data)
                    => \A errors \in iter_errors(generate(resources, resource_types), data) :
                            errors # <<>> /\ ~HasRaise(errors)
    /\ Validated /\ schema_arg = "given" /\ resources = <<>> /\ HasPolicyEntry(data)
        => result.kind = "return" /\ Len(result.list) >= 1

\* two policy entries valid but for their type were validated against the
\* schema of an empty registry, and the anyOf error of the first was returned
C14_Witness ==
    /\ Validated /\ schema_arg = "given" /\ resources = <<>>
    /\ Len(data.policies) = 2
    /\ \A i \in DOMAIN data.policies :
        data.policies[i].kind = "map" /\ data.policies[i].resource = "s3"
    /\ TheSchema.policies = <<>>
    /\ result.list[1].validator = "anyOf"
    /\ result.list[1].abs_path = <<K("policies"), I(0)>>

(***************************************************************************)
(* Properties of the run and schema commands, checked under SpecCli.       *)
(***************************************************************************)
\* the command line has ended: normally, through SystemExit, through an
\* exception that left main, or in the debugger
Ended == pc \in {"done", "exited", "raised", "post_mortem"}

\* the selected policies that raise when called
Raising == {i \in DOMAIN run_policies : run_policies[i] = "raise"}

Upto(n) == [i \in 1..n |-> i]

\* C15: the run command with debug off calls every selected policy, in order,
\* also after one that raised, and then calls exit exactly once: with status
\* 0 when none raised (also with no policy selected) and with 1 when one did.
\* With debug on the first exception leaves the command: no later policy is
\* called and exit is not called.  While the command runs the policies called
\* are the first ones, in order, and exit has not been called.
C15_RunEveryPolicyThenExit ==
    argv.subparser = "run" =>
        /\ invoked = Upto(Len(invoked))
        /\ pc = "run" => exit_calls = <<>>
        /\ Ended /\ "--debug" \notin argv.flags =>
            /\ invoked = Upto(Len(run_policies))
            /\ exit_calls = <<IF Raising = {} THEN 0 ELSE 1>>
            /\ raised = ""
            /\ pc \in {"done", "exited"}
        /\ Ended /\ "--debug" \in argv.flags /\ Raising = {} =>
            /\ invoked = Upto(Len(run_policies))
            /\ exit_calls = <<0>>
            /\ raised = ""
        /\ pc \in {"except", "raised", "post_mortem"} \/ (Ended /\ "--debug" \in argv.flags /\ Raising # {}) =>
            /\ "--debug" \in argv.flags
            /\ Raising # {}
            /\ invoked = Upto(First(Raising))
            /\ exit_calls = <<>>
            /\ raised = "Exception"

\* with debug off the first and the last of three policies raised, all three
\* were called and exit was called once, with status 1
C15_Witness ==
    /\ argv.subparser = "run" /\ "--debug" \notin argv.flags
    /\ run_policies = <<"raise", "ok", "raise">>
    /\ invoked = <<1, 2, 3>>
    /\ exit_calls = <<1>>
    /\ Ended

\* with debug on the second of three policies raised and the third was not called
C15_WitnessDebug ==
    /\ argv.subparser = "run" /\ "--debug" \in argv.flags
    /\ run_policies = <<"ok", "raise", "ok">>
    /\ invoked = <<1, 2>>
    /\ exit_calls = <<>>
    /\ raised = "Exception"
    /\ Ended

\* C16 as stated: the schema command given no option, or --summarize alone,
\* runs to completion: it ends without an exit call and without an exception,
\* every attribute it reads being one the parser defines.
C16_AsStated ==
    argv.subparser = "schema" /\ argv.flags \in {{}, {"--summarize"}} =>
        /\ raised = ""
        /\ pc \notin {"except", "raised", "post_mortem"}
        /\ exit_calls = <<>>

(***************************************************************************)
(* Properties of the order of the two checks of schema.validate, checked   *)
(* under SpecVal.                                                          *)
(***************************************************************************)
StructuralIn(list) == {i \in DOMAIN list : list[i].type = "ValidationError"}

DuplicateIn(list) == {i \in DOMAIN list : list[i].type = "ValueError"}

\* C17: the duplicate-name error is returned only for a document the
\* structural check finds nothing in: no sequence schema.validate returns
\* holds a structural error and a duplicate-name error, and a document that
\* is structurally broken and repeats a name gets no duplicate-name error
\* (a duplicate-name error, and a result without structural error for a
\* document that repeats a name, are seen for structurally valid documents only).
C17_DuplicateCheckAfterStructure ==
    Validated /\ result.kind = "return"
        => /\ StructuralIn(result.list) = {} \/ DuplicateIn(result.list) = {}
           /\ DuplicateIn(result.list) # {} => StructurallyValid(data)
           /\ DuplicatedNames(data) # {} /\ StructuralIn(result.list) = {}
                => StructurallyValid(data)

\* two policies named foo, of a type that is not registered, were validated
C17_Witness ==
    /\ Validated /\ SchemaAccepted /\ result.kind = "return"
    /\ ~StructurallyValid(data)
    /\ "foo" \in DuplicatedNames(data)
    /\ DuplicateIn(result.list) = {}
    /\ StructuralIn(result.list) # {}

(***************************************************************************)
(* Properties of specific_error on errors that are not ambiguous, checked  *)
(* under SpecVal.                                                          *)
(***************************************************************************)
\* the errors of a list with the errors of their contexts, at any depth
RECURSIVE Nested(_)
Nested(errors) ==
    IF errors = <<>> THEN {}
    ELSE {Head(errors)} \cup Nested(Head(errors).context) \cup Nested(Tail(errors))

Specific(e) == e.validator \notin {"anyOf", "oneOf"}

\* the instances an error is tried with: none, a policy, an item
OtherInstances ==
    {NoInstance,
     PolicyInstance(MapPolicy("foo", "s3", FALSE, <<>>, FALSE, <<>>)),
     ItemInstance(MapItem("tag", "s3", 2, TRUE))}

\* C20: specific_error returns an error whose validator is neither anyOf nor
\* oneOf unchanged, whatever its instance and its context are; so when the
\* first raw error of a document is such an error, it is the first element
\* schema.validate returns.
C20_SpecificErrorUnchanged ==
    Validated /\ SchemaAccepted
        => LET yielded == RawErrors
           IN  \A errors \in yielded :
                /\ \A e \in Nested(errors) :
                    Specific(e) =>
                        /\ specific_error(e) = Returns(e)
                        /\ \A inst \in OtherInstances, context \in {<<>>, <<e>>} :
                            specific_error([e EXCEPT !.instance = inst, !.context = context])
                                = Returns([e EXCEPT !.instance = inst, !.context = context])
                /\ errors # <<>> /\ Specific(errors[1]) /\ Cardinality(yielded) = 1
                    => result.kind = "return" /\ result.list[1] = ValidationError(errors[1])

\* a policy without a name: the `required` error under the anyOf error of the
\* policies item has the policy, with its `resource`, for instance
C20_Witness ==
    /\ Validated /\ SchemaAccepted
    /\ \E errors \in RawErrors :
        \E e \in Nested(errors) :
            /\ e.validator = "required"
            /\ e.instance.is_dict /\ e.instance.resource = "s3"
            /\ specific_error(e) = Returns(e)

\* a document without `policies`: the first raw error is the `required` error
\* of the document and it is returned
C20_WitnessFirst ==
    /\ Validated /\ SchemaAccepted
    /\ \E errors \in RawErrors :
        /\ errors # <<>> /\ Specific(errors[1])
        /\ result.list[1] = ValidationError(errors[1])

(***************************************************************************)
(* Properties of the resource discriminator of specific_error, checked     *)
(* under SpecVal.                                                          *)
(***************************************************************************)
\* the anyOf and oneOf errors of a list, at any depth, whose instance is a
\* mapping with a `resource`
WithResource(errors) ==
    {e \in Nested(errors) :
        /\ e.validator \in {"anyOf", "oneOf"}
        /\ e.instance.is_dict
        /\ e.instance.resource # Absent}

\* the alternative a sub-error of a policies item error was recorded for
AlternativeOf(error, sub) == error.validator_value[sub.schema_path[5].i + 1]

\* C21 as stated: for an anyOf or oneOf error whose instance is a mapping with
\* `resource` = r, the sub-error the specializer recurses on was recorded for
\* the alternative whose $ref is the policy of resource type r, and when r is
\* no registered resource type the resource discriminator selects nothing.
C21_AsStated ==
    Validated /\ SchemaAccepted =>
        \A errors \in RawErrors : \A e \in WithResource(errors) :
            LET r == e.instance.resource
                selected == ByResource(e, r)
            IN  /\ selected.raised = "recurse"
                    => AlternativeOf(e, selected.error) = PolicyRef(r)
                /\ r \notin KeySet(resources) => selected.raised # "recurse"

(***************************************************************************)
(* Properties of the self-check of the generated schema, checked under     *)
(* SpecVal.                                                                *)
(***************************************************************************)
\* C22: schema.validate called without a schema checks the schema generate
\* builds before it validates: when that schema is malformed the call raises
\* SchemaError and returns no list, and otherwise no SchemaError is raised;
\* called with a schema it makes no check, so that the same malformed schema
\* passed in is validated against and its errors are returned; no element of
\* a returned list is a schema error.
C22_GeneratedSchemaSelfChecked ==
    Validated =>
        /\ schema_arg = "None" /\ check_schema(TheSchema) # ""
            => result = Raised("SchemaError")
        /\ schema_arg = "None" /\ check_schema(TheSchema) = ""
            => result.raised # "SchemaError"
        /\ schema_arg = "given"
            => /\ result.raised # "SchemaError"
               /\ check_schema(TheSchema) # ""
                    => /\ result \in validate(data, TheSchema)
                       /\ HasPolicyEntry(data) => result.kind = "return" /\ result.list # <<>>
        /\ result.kind = "return"
            => \A i \in DOMAIN result.list :
                    result.list[i].type \in {"ValidationError", "ValueError", "str"}

\* no type is registered and a document with a policy entry was validated
\* without a schema: SchemaError was raised
C22_Witness ==
    /\ schema_arg = "None"
    /\ resources = <<>>
    /\ HasPolicyEntry(data)
    /\ result = Raised("SchemaError")

\* the same schema was passed in: the errors of the document were returned
C22_WitnessGiven ==
    /\ schema_arg = "given"
    /\ resources = <<>>
    /\ HasPolicyEntry(data)
    /\ result.kind = "return" /\ Len(result.list) = 2

(***************************************************************************)
(* Properties of the type discriminator of specific_error, checked under   *)
(* SpecVal.                                                                *)
(***************************************************************************)
\* the anyOf and oneOf errors of a list, at any depth, whose instance is a
\* mapping with a `type` that one of the alternatives defines
WithRegisteredType(errors) ==
    {e \in Nested(errors) :
        /\ e.validator \in {"anyOf", "oneOf"}
        /\ e.instance.is_dict
        /\ e.instance.type # Absent
        /\ \E i \in DOMAIN e.validator_value :
            /\ e.validator_value[i].kind = "$ref"
            /\ e.validator_value[i].ref[Len(e.validator_value[i].ref)] = e.instance.type}

\* the alternative of an anyOf error that one of its sub-errors was recorded
\* for: the sub-error's schema path goes on from the error's with its index
TriedAlternative(error, sub) ==
    error.validator_value[sub.schema_path[Len(error.schema_path) + 1].i + 1]

\* C23 as stated: for an anyOf or oneOf error whose instance has `type` = t,
\* a registered action or filter name, the sub-error the type discriminator
\* selects was recorded for the alternative that defines t itself, not for
\* the alternative of a name that ends with t.
C23_AsStated ==
    Validated /\ SchemaAccepted =>
        \A errors \in RawErrors : \A e \in WithRegisteredType(errors) :
            LET selected == ByType(e, e.instance.type)
            IN  selected.raised = ""
                    => LET alt == TriedAlternative(e, selected.error)
                       IN  alt.kind = "$ref" /\ alt.ref[Len(alt.ref)] = e.instance.type

(***************************************************************************)
(* Properties of the document the validate command validates for a file,   *)
(* checked under Spec.                                                     *)
(***************************************************************************)
\* C24 as stated: for every config file the validate command processes, the
\* document handed to schema validation and to the duplicate check across
\* files is the content of that file, whatever its extension, and never the
\* content of a file processed before it.
C24_AsStated ==
    reports.file # 0 /\ reports.exists /\ reports.data # NoData
        => reports.data = reports.content

(***************************************************************************)
(* Properties of the $refs of a generated document, checked under SpecGen. *)
(***************************************************************************)
\* the field of the model that stands for a key of `definitions`
DefinitionKey(segment) == IF segment = "policy-mode" THEN "policy_mode" ELSE segment

\* the JSON pointer of a $ref leads to a value of the document
Defined(document, ref) ==
    LET defs == document.definitions
    IN  /\ Len(ref) >= 3
        /\ ref[1] = "#" /\ ref[2] = "definitions"
        /\ DefinitionKey(ref[3]) \in DOMAIN defs
        /\ CASE ref[3] = "resources" ->
                    /\ Len(ref) \in {5, 6}
                    /\ ref[4] \in DOMAIN defs.resources
                    /\ ref[5] \in DOMAIN defs.resources[ref[4]]
                    /\ Len(ref) = 6 =>
                        /\ ref[5] \in {"actions", "filters"}
                        /\ ref[6] \in DOMAIN (IF ref[5] = "actions"
                                              THEN defs.resources[ref[4]].actions
                                              ELSE defs.resources[ref[4]].filters)
             [] ref[3] = "filters" -> Len(ref) = 4 /\ ref[4] \in defs.filters
             [] OTHER -> Len(ref) = 3

\* the $refs of a node: the node itself, or the alternatives of its items
NodeRefs(node) ==
    IF node.kind = "$ref" THEN {node}
    ELSE IF node.kind = "array" THEN RefsOf(node.anyOf)
    ELSE {}

\* every $ref the document holds: in the anyOf of the policies items, in the
\* envelope, and in the policy and the filter definitions of every type
DocumentRefs(document) ==
    LET defs == document.definitions.resources
    IN  RefsOf(document.policies)
        \cup {document.definitions.policy.mode}
        \cup UNION {{defs[t].policy.allOf0}
                    \cup RefsOf(defs[t].policy.filters)
                    \cup RefsOf(defs[t].policy.actions)
                    \cup UNION {NodeRefs(defs[t].filters[n]) : n \in DOMAIN defs[t].filters}
                    \cup UNION {NodeRefs(defs[t].actions[n]) : n \in DOMAIN defs[t].actions} :
                    t \in DOMAIN defs}

\* C25: whatever the registry holds (aliases, filters named value, event,
\* and, or), every $ref of the document generate returns points to a
\* definition of that document.
C25_EveryRefDefined ==
    Built => \A node \in DocumentRefs(built.schema) : Defined(built.schema, node.ref)

\* a build of a type whose filters are `value` and `and`: the document holds
\* the $refs to the definitions of `value` and of the key=value shortcut,
\* and none to `and`
C25_Witness ==
    /\ Built
    /\ \E t \in Included :
        /\ Keys(Lookup(resources, t).filter_registry) \in {<<"value", "and">>, <<"and", "value">>}
        /\ FilterRef(t, "value") \in DocumentRefs(built.schema)
        /\ SharedFilterRef("valuekv") \in DocumentRefs(built.schema)
        /\ FilterRef(t, "and") \notin DocumentRefs(built.schema)

\* a build of a type with two names for one filter implementation
C25_WitnessAlias ==
    /\ Built
    /\ \E t \in Included :
        LET filter_registry == Lookup(resources, t).filter_registry
        IN  /\ Len(filter_registry) = 2
            /\ filter_registry[1].cls = filter_registry[2].cls
            /\ Cardinality(RefsOf(BuiltDefs[t].policy.filters)) = 2

====
